---------------------------- MODULE Spec2Model ----------------------------
(***************************************************************************)
(* hledger-lib: the adapter between typed report options / typed reports   *)
(* and the hledger command line and its JSON output.                       *)
(*                                                                         *)
(* Two kinds of specification live here:                                   *)
(*   SpecParse - the pure JSON -> domain-model parsers, applied to inputs  *)
(*               drawn from bounded sets of JSON values;                   *)
(*   Spec      - the invocation runner (one report call: build the        *)
(*               command, run the external process, classify the outcome). *)
(***************************************************************************)
EXTENDS Integers, Sequences, FiniteSets, TLC

(***************************************************************************)
(* Bounds of the model.                                                    *)
(***************************************************************************)
\* longest array of entries (accounts, rows, amounts, dates) in a document
MaxLen == 2

\* most mode booleans (period, calculation, accumulation, tree) set at once
MaxModes == 2

\* longest list of query patterns
MaxQueries == 2

\* longest text, in characters, an accounts run prints
MaxText == 3

(***************************************************************************)
(* Option<T> and Result<T, HLedgerError>; a panic is an outcome of its own *)
(***************************************************************************)
None == [some |-> FALSE]

Some(x) == [some |-> TRUE, v |-> x]

Ok(x) == [tag |-> "Ok", v |-> x]

ParseError(msg) == [tag |-> "Err", e |-> "ParseError", msg |-> msg]

Panic(msg) == [tag |-> "Panic", msg |-> msg]

IsOk(r) == r.tag = "Ok"

\* `expr?` and what follows it: a failure is returned at once, a success
\* hands its value to the rest of the function
try(r, rest(_)) == IF IsOk(r) THEN rest(r.v) ELSE r

\* for x in arr { if keep(x) { acc.push(f(x)?) } }, from element i on: an
\* element that is not kept is passed over, the first failure ends the loop
RECURSIVE for_each(_, _, _, _, _)
for_each(keep(_), f(_), arr, i, acc) ==
    IF i > Len(arr)
    THEN Ok(acc)
    ELSE IF keep(arr[i])
    THEN try(f(arr[i]), LAMBDA x : for_each(keep, f, arr, i + 1, Append(acc, x)))
    ELSE for_each(keep, f, arr, i + 1, acc)

\* a loop that keeps every element
any(x) == TRUE

\* Option::ok_or_else
ok_or_else(opt, err) == IF opt.some THEN Ok(opt.v) ELSE err

(***************************************************************************)
(* serde_json::Value.  A string is its sequence of characters.  A number   *)
(* is serde_json's N: PosInt(u64), NegInt(i64) or Float(f64).  An integer  *)
(* is kept at its full width as top * 2^63 + hi * 2^32 + lo (lo the low    *)
(* 32 bits, hi the next 31, top bit 63), so that `as u32` and the i64      *)
(* range are what they are in the code.  A float is kept as the decimal    *)
(* expansion d * 10^-p of the f64 it is, or as huge (beyond the Decimal    *)
(* range).                                                                 *)
(***************************************************************************)
JNull == [t |-> "null"]

JBool(b) == [t |-> "bool", b |-> b]

JStr(s) == [t |-> "str", s |-> s]

JArr(a) == [t |-> "arr", a |-> a]

JObj(o) == [t |-> "obj", o |-> o]

JPos(top, hi, lo) == [t |-> "num", k |-> "PosInt", top |-> top, hi |-> hi, lo |-> lo]

JNeg(hi, lo) == [t |-> "num", k |-> "NegInt", hi |-> hi, lo |-> lo]

JFloat(neg, d, p, huge) == [t |-> "num", k |-> "Float", neg |-> neg, d |-> d, p |-> p, huge |-> huge]

JNat(n) == JPos(0, 0, n)

EmptyObj == JObj(<<>>)

is_array(v) == v.t = "arr"

is_object(v) == v.t = "obj"

is_null(v) == v.t = "null"

\* obj.get(k).is_some()
has(v, k) == v.t = "obj" /\ k \in DOMAIN v.o

\* obj.get(k): Option<&Value>
get(v, k) == IF has(v, k) THEN Some(v.o[k]) ELSE None

as_str(v) == IF v.t = "str" THEN Some(v.s) ELSE None

as_bool(v) == IF v.t = "bool" THEN Some(v.b) ELSE None

\* Number::as_i64: a PosInt only when it fits i64, a NegInt always, a Float never
as_i64(v) ==
    IF v.t = "num" /\ v.k = "PosInt" /\ v.top = 0
    THEN Some([neg |-> FALSE, hi |-> v.hi, lo |-> v.lo])
    ELSE IF v.t = "num" /\ v.k = "NegInt"
    THEN Some([neg |-> TRUE, hi |-> v.hi, lo |-> v.lo])
    ELSE None

\* Number::as_u64: a PosInt only
as_u64(v) ==
    IF v.t = "num" /\ v.k = "PosInt"
    THEN Some([top |-> v.top, hi |-> v.hi, lo |-> v.lo])
    ELSE None

\* Number::as_f64: every number
as_f64(v) == IF v.t = "num" THEN Some(v) ELSE None

\* `x as u32` of a u64: the low 32 bits
as_u32(u) == u.lo


(***************************************************************************)
(* rust_decimal::Decimal: a 96-bit mantissa with a sign and a scale.  The  *)
(* mantissa keeps the i64 it was built from as [neg, hi, lo].              *)
(***************************************************************************)
\* Decimal::new panics when the scale exceeds this (rust_decimal's MAX_SCALE)
MAX_SCALE == 28

I64(neg, hi, lo) == [neg |-> neg, hi |-> hi, lo |-> lo]

Dec(m, s) == [m |-> m, s |-> s]

\* Decimal::ZERO
Decimal_ZERO == Dec(I64(FALSE, 0, 0), 0)

\* Decimal::new(num: i64, scale: u32): panics when scale > 28
Decimal_new(num, scale) ==
    IF scale > MAX_SCALE
    THEN Panic("Scale exceeds the maximum precision allowed")
    ELSE Ok(Dec(num, scale))

\* Decimal::from_f64_retain on the f64 a JSON number is read as: None
\* beyond the Decimal range, else the decimal the f64 holds.  An integer
\* below 2^53 is held exactly; a larger one is the nearest f64 (approx).
Decimal_from_f64_retain(num) ==
    IF num.k = "Float"
    THEN IF num.huge THEN None ELSE Some(Dec(I64(num.neg, 0, num.d), num.p))
    ELSE LET m == I64(num.k = "NegInt", num.hi, num.lo)
             top == IF num.k = "PosInt" THEN num.top ELSE 0
         IN  IF top = 0 /\ num.hi < 2097152
             THEN Some(Dec(m, 0))
             ELSE Some([m |-> m, s |-> 0, top |-> top, approx |-> TRUE])

DigitChars == {"0", "1", "2", "3", "4", "5", "6", "7", "8", "9"}

DigitVal(c) ==
    CASE c = "0" -> 0 [] c = "1" -> 1 [] c = "2" -> 2 [] c = "3" -> 3
      [] c = "4" -> 4 [] c = "5" -> 5 [] c = "6" -> 6 [] c = "7" -> 7
      [] c = "8" -> 8 [] c = "9" -> 9

\* <Decimal as FromStr>::from_str, radix 10: an optional sign first, then
\* digits with at most one point ('_' allowed after a digit); no digit at
\* all, or any other character, is an error.  st = [n, scale, point, has].
RECURSIVE decimal_digits(_, _, _)
decimal_digits(s, i, st) ==
    IF i > Len(s)
    THEN IF st.has THEN Some(st) ELSE None
    ELSE LET c == s[i] IN
         IF c \in DigitChars
         THEN decimal_digits(s, i + 1,
                  [st EXCEPT !.n = st.n * 10 + DigitVal(c),
                             !.scale = IF st.point THEN st.scale + 1 ELSE st.scale,
                             !.has = TRUE])
         ELSE IF c = "." /\ ~st.point
         THEN decimal_digits(s, i + 1, [st EXCEPT !.point = TRUE])
         ELSE IF c = "_" /\ st.has
         THEN decimal_digits(s, i + 1, st)
         ELSE None

Decimal_from_str(s) ==
    IF Len(s) = 0
    THEN None
    ELSE LET signed == s[1] \in {"-", "+"}
             st0 == [n |-> 0, scale |-> 0, point |-> FALSE, has |-> FALSE]
             r == decimal_digits(s, IF signed THEN 2 ELSE 1, st0)
         IN  IF r.some
             THEN Some(Dec(I64(s[1] = "-", 0, r.v.n), r.v.scale))
             ELSE None

(***************************************************************************)
(* balance.rs: the decimal codec                                           *)
(***************************************************************************)
\* seeded fault: the decimal codec reading an object without a mantissa,
\* and any value of no known shape, as zero
parse_decimal_zero_default(value) ==
    IF is_object(value)
    THEN IF get(value, "decimalMantissa").some /\ as_i64(value.o.decimalMantissa).some
         THEN Decimal_new(as_i64(value.o.decimalMantissa).v,
                          IF get(value, "decimalPlaces").some
                             /\ as_u64(value.o.decimalPlaces).some
                          THEN as_u32(as_u64(value.o.decimalPlaces).v)
                          ELSE 0)
         ELSE Ok(Decimal_ZERO)
    ELSE IF as_f64(value).some
    THEN ok_or_else(Decimal_from_f64_retain(as_f64(value).v),
                    ParseError("Invalid decimal number"))
    ELSE IF as_str(value).some
    THEN ok_or_else(Decimal_from_str(as_str(value).v),
                    ParseError("Invalid decimal string"))
    ELSE Ok(Decimal_ZERO)

parse_decimal_from_json(value) ==
    IF is_object(value)
    THEN IF get(value, "decimalMantissa").some /\ as_i64(value.o.decimalMantissa).some
         THEN LET mantissa == as_i64(value.o.decimalMantissa).v
                  places == IF get(value, "decimalPlaces").some
                               /\ as_u64(value.o.decimalPlaces).some
                            THEN as_u32(as_u64(value.o.decimalPlaces).v)
                            ELSE 0
              IN  Decimal_new(mantissa, places)
         ELSE ParseError("Unknown decimal format")
    ELSE IF as_f64(value).some
    THEN ok_or_else(Decimal_from_f64_retain(as_f64(value).v),
                    ParseError("Invalid decimal number"))
    ELSE IF as_str(value).some
    THEN ok_or_else(Decimal_from_str(as_str(value).v),
                    ParseError("Invalid decimal string"))
    ELSE ParseError("Unknown decimal format")

(***************************************************************************)
(* balance.rs: amounts and prices                                          *)
(***************************************************************************)
\* .get(k).and_then(|c| c.as_str()).unwrap_or(dflt)
str_or(obj, k, dflt) ==
    IF get(obj, k).some /\ as_str(obj.o[k]).some THEN obj.o[k].s ELSE dflt

\* the body shared by both branches of parse_price: the Price of an amount
\* object, or the failure of its quantity
price_of_amount_obj(amount_obj) ==
    try(IF get(amount_obj, "aquantity").some
        THEN parse_decimal_from_json(amount_obj.o.aquantity)
        ELSE Ok(Decimal_ZERO),
        LAMBDA quantity :
            Ok(Some([commodity |-> str_or(amount_obj, "acommodity", <<>>),
                     quantity |-> quantity])))

\* seeded fault: parse_price trying the legacy priceAmount before contents
parse_price_legacy_first(value) ==
    IF is_object(value)
    THEN IF get(value, "priceAmount").some /\ is_object(value.o.priceAmount)
         THEN price_of_amount_obj(value.o.priceAmount)
         ELSE IF get(value, "contents").some /\ is_object(value.o.contents)
         THEN price_of_amount_obj(value.o.contents)
         ELSE Ok(None)
    ELSE Ok(None)

parse_price(value) ==
    IF is_object(value)
    THEN IF get(value, "contents").some /\ is_object(value.o.contents)
         THEN price_of_amount_obj(value.o.contents)
         ELSE IF get(value, "priceAmount").some /\ is_object(value.o.priceAmount)
         THEN price_of_amount_obj(value.o.priceAmount)
         ELSE Ok(None)
    ELSE Ok(None)

\* one iteration of the loop of parse_amounts on an object element
parse_amount_obj(amount_obj) ==
    try(IF get(amount_obj, "aquantity").some
        THEN parse_decimal_from_json(amount_obj.o.aquantity)
        ELSE Ok(Decimal_ZERO),
        LAMBDA quantity :
    try(IF get(amount_obj, "aprice").some
        THEN parse_price(amount_obj.o.aprice)
        ELSE Ok(None),
        LAMBDA price :
            Ok([commodity |-> str_or(amount_obj, "acommodity", <<>>),
                quantity |-> quantity, price |-> price])))

parse_amounts(value) ==
    IF is_array(value)
    THEN for_each(is_object, parse_amount_obj, value.a, 1, <<>>)
    ELSE Ok(<<>>)

(***************************************************************************)
(* balance.rs: the report parsers                                          *)
(***************************************************************************)
\* array[2].as_u64().unwrap_or(0) as u32
u32_or(v, dflt) == IF as_u64(v).some THEN as_u32(as_u64(v).v) ELSE dflt

parse_balance_account(value) ==
    IF ~is_array(value)
    THEN ParseError("Account should be an array")
    ELSE IF Len(value.a) < 4
    THEN ParseError("Account array should have at least 4 elements")
    ELSE try(parse_amounts(value.a[4]),
             LAMBDA amounts :
                 Ok([name |-> IF as_str(value.a[1]).some THEN value.a[1].s ELSE <<>>,
                     display_name |-> IF as_str(value.a[2]).some THEN value.a[2].s ELSE <<>>,
                     indent |-> u32_or(value.a[3], 0),
                     amounts |-> amounts]))

extract_date_from_tagged_value(value) ==
    IF is_object(value) /\ get(value, "contents").some /\ as_str(value.o.contents).some
    THEN value.o.contents.s
    ELSE <<>>

\* the date loop every periodic parser repeats: pairs of tagged dates
is_pair(v) == is_array(v) /\ Len(v.a) = 2

parse_dates(dates_json) ==
    IF is_array(dates_json)
    THEN for_each(is_pair,
                  LAMBDA pair : Ok([start |-> extract_date_from_tagged_value(pair.a[1]),
                                    end |-> extract_date_from_tagged_value(pair.a[2])]),
                  dates_json.a, 1, <<>>).v
    ELSE <<>>

\* if let Some(x) = obj.get(k) { Some(parse_amounts(x)?) } else { None }
opt_amounts(obj, k) ==
    IF get(obj, k).some
    THEN try(parse_amounts(obj.o[k]), LAMBDA a : Ok(Some(a)))
    ELSE Ok(None)

\* what follows the account name in each of the three periodic-row parsers
periodic_row_with(obj, account) ==
    try(IF get(obj, "prrAmounts").some /\ is_array(obj.o.prrAmounts)
        THEN for_each(any, parse_amounts, obj.o.prrAmounts.a, 1, <<>>)
        ELSE Ok(<<>>),
        LAMBDA amounts :
    try(opt_amounts(obj, "prrTotal"),
        LAMBDA total :
    try(opt_amounts(obj, "prrAverage"),
        LAMBDA average :
            Ok([account |-> account, display_name |-> account,
                amounts |-> amounts, total |-> total, average |-> average]))))

parse_periodic_row(value) ==
    IF ~is_object(value)
    THEN ParseError("Periodic row should be an object")
    ELSE periodic_row_with(value, str_or(value, "prrName", <<>>))

\* seeded fault: the name read as in cashflow.rs, but a name that is no
\* string fails the row
parse_periodic_row_value_strict_name(value) ==
    IF ~is_object(value)
    THEN ParseError("Expected object for periodic balance row")
    ELSE IF get(value, "prrName").some /\ ~as_str(value.o.prrName).some
              /\ ~is_array(value.o.prrName)
    THEN ParseError("Expected string for row name")
    ELSE periodic_row_with(value,
             IF get(value, "prrName").some /\ as_str(value.o.prrName).some
             THEN value.o.prrName.s
             ELSE <<>>)

\* incomestatement.rs keeps its own parse_periodic_row: the name is the
\* string, "" for an empty array, "" for anything else
incomestatement_parse_periodic_row(value) ==
    IF ~is_object(value)
    THEN ParseError("Periodic row should be an object")
    ELSE periodic_row_with(value,
             IF ~get(value, "prrName").some THEN <<>>
             ELSE IF as_str(value.o.prrName).some THEN value.o.prrName.s
             ELSE IF is_array(value.o.prrName) /\ Len(value.o.prrName.a) = 0 THEN <<>>
             ELSE <<>>)

\* cashflow.rs: parse_periodic_row_value
parse_periodic_row_value(value) ==
    IF ~is_object(value)
    THEN ParseError("Expected object for periodic balance row")
    ELSE periodic_row_with(value,
             IF get(value, "prrName").some /\ as_str(value.o.prrName).some
             THEN value.o.prrName.s
             ELSE <<>>)

\* the periodic-row parser of the module `of`
row_parser(of, value) ==
    CASE of = "balance" -> parse_periodic_row(value)
      [] of = "incomestatement" -> incomestatement_parse_periodic_row(value)
      [] of = "cashflow" -> parse_periodic_row_value(value)

\* seeded fault: a periodic report without prRows read as one with no rows
periodic_balance_of_rows_optional(of, value, no_dates, no_rows) ==
    IF ~get(value, "prDates").some
    THEN ParseError(no_dates)
    ELSE try(IF get(value, "prRows").some /\ is_array(value.o.prRows)
             THEN for_each(any, LAMBDA row : row_parser(of, row),
                           value.o.prRows.a, 1, <<>>)
             ELSE Ok(<<>>),
             LAMBDA rows :
         try(IF get(value, "prTotals").some
             THEN try(row_parser(of, value.o.prTotals), LAMBDA t : Ok(Some(t)))
             ELSE Ok(None),
             LAMBDA totals :
                 Ok([dates |-> parse_dates(value.o.prDates),
                     rows |-> rows, totals |-> totals])))

\* prDates, prRows and prTotals of a periodic report object, as the modules
\* balance, incomestatement (subreport) and cashflow each read them
periodic_balance_of(of, value, no_dates, no_rows) ==
    IF ~get(value, "prDates").some
    THEN ParseError(no_dates)
    ELSE IF ~get(value, "prRows").some
    THEN ParseError(no_rows)
    ELSE try(IF is_array(value.o.prRows)
             THEN for_each(any, LAMBDA row : row_parser(of, row),
                           value.o.prRows.a, 1, <<>>)
             ELSE Ok(<<>>),
             LAMBDA rows :
         try(IF get(value, "prTotals").some
             THEN try(row_parser(of, value.o.prTotals), LAMBDA t : Ok(Some(t)))
             ELSE Ok(None),
             LAMBDA totals :
                 Ok([dates |-> parse_dates(value.o.prDates),
                     rows |-> rows, totals |-> totals])))

parse_periodic_balance(value) ==
    try(periodic_balance_of("balance", value,
                            "Missing prDates in periodic balance",
                            "Missing prRows in periodic balance"),
        LAMBDA pb : Ok([variant |-> "Periodic", dates |-> pb.dates,
                        rows |-> pb.rows, totals |-> pb.totals]))

\* seeded fault: parse_simple_balance accepting any array of two or more
\* elements (the length test written `< 2`)
parse_simple_balance_at_least_two(value) ==
    IF ~is_array(value)
    THEN ParseError("Expected array for simple balance")
    ELSE IF Len(value.a) < 2
    THEN ParseError("Simple balance should have 2 elements")
    ELSE try(IF is_array(value.a[1])
             THEN for_each(any, parse_balance_account, value.a[1].a, 1, <<>>)
             ELSE Ok(<<>>),
             LAMBDA accounts :
         try(parse_amounts(value.a[2]),
             LAMBDA totals :
                 Ok([variant |-> "Simple", accounts |-> accounts, totals |-> totals])))

parse_simple_balance(value) ==
    IF ~is_array(value)
    THEN ParseError("Expected array for simple balance")
    ELSE IF Len(value.a) # 2
    THEN ParseError("Simple balance should have 2 elements")
    ELSE try(IF is_array(value.a[1])
             THEN for_each(any, parse_balance_account, value.a[1].a, 1, <<>>)
             ELSE Ok(<<>>),
             LAMBDA accounts :
         try(parse_amounts(value.a[2]),
             LAMBDA totals :
                 Ok([variant |-> "Simple", accounts |-> accounts, totals |-> totals])))

\* get_balance, from the parsed JSON document on: the shape decides the parser
balance_report_of_json(json_value) ==
    IF is_array(json_value)
    THEN parse_simple_balance(json_value)
    ELSE IF is_object(json_value) /\ get(json_value, "prDates").some
    THEN parse_periodic_balance(json_value)
    ELSE ParseError("Unknown balance report format")

(***************************************************************************)
(* incomestatement.rs and cashflow.rs: the compound report parsers         *)
(***************************************************************************)
parse_incomestatement_subreport(name, value, increases_total) ==
    IF ~is_object(value)
    THEN ParseError("Subreport should be an object")
    ELSE try(periodic_balance_of("incomestatement", value,
                                 "Missing prDates in subreport",
                                 "Missing prRows in subreport"),
             LAMBDA pb : Ok([name |-> name, dates |-> pb.dates, rows |-> pb.rows,
                             totals |-> pb.totals,
                             increases_total |-> increases_total]))

parse_periodic_balance_value(value) ==
    IF ~is_object(value)
    THEN ParseError("Expected object for periodic balance")
    ELSE periodic_balance_of("cashflow", value,
                             "Missing prDates in periodic balance",
                             "Missing prRows in periodic balance")

\* one [name, report, increases_total] entry of cbrSubreports
subreport_of(of, entry) ==
    IF of = "incomestatement"
    THEN parse_incomestatement_subreport(
             IF as_str(entry[1]).some THEN entry[1].s ELSE <<>>,
             entry[2],
             IF as_bool(entry[3]).some THEN entry[3].b ELSE FALSE)
    ELSE try(parse_periodic_balance_value(entry[2]),
             LAMBDA periodic_balance :
                 Ok([name |-> IF as_str(entry[1]).some THEN entry[1].s ELSE <<>>,
                     data |-> periodic_balance,
                     increases_total |-> IF as_bool(entry[3]).some
                                         THEN entry[3].b ELSE TRUE]))

\* an entry of cbrSubreports that is not an array of at least three
\* elements is passed over
is_subreport_entry(v) == is_array(v) /\ Len(v.a) >= 3

\* cbrTitle, cbrDates, cbrSubreports and cbrTotals of a compound report
compound_report_of(of, value, not_object, default_title, no_dates, no_subreports) ==
    IF ~is_object(value)
    THEN ParseError(not_object)
    ELSE IF ~get(value, "cbrDates").some
    THEN ParseError(no_dates)
    ELSE IF ~get(value, "cbrSubreports").some
    THEN ParseError(no_subreports)
    ELSE try(IF is_array(value.o.cbrSubreports)
             THEN for_each(is_subreport_entry, LAMBDA e : subreport_of(of, e.a),
                           value.o.cbrSubreports.a, 1, <<>>)
             ELSE Ok(<<>>),
             LAMBDA subreports :
         try(IF get(value, "cbrTotals").some
             THEN try(row_parser(of, value.o.cbrTotals), LAMBDA t : Ok(Some(t)))
             ELSE Ok(None),
             LAMBDA totals :
                 Ok([title |-> str_or(value, "cbrTitle", default_title),
                     dates |-> parse_dates(value.o.cbrDates),
                     subreports |-> subreports, totals |-> totals])))

parse_incomestatement_report(value) ==
    compound_report_of("incomestatement", value,
                       "Expected object for income statement report",
                       <<"Income Statement">>,
                       "Missing cbrDates in income statement",
                       "Missing cbrSubreports in income statement")

parse_cashflow_report(value) ==
    compound_report_of("cashflow", value,
                       "Expected JSON object for cashflow report",
                       <<"Cashflow Statement">>,
                       "Missing cbrDates in cashflow",
                       "Missing cbrSubreports in cashflow")

(***************************************************************************)
(* print.rs keeps its own copy of the decimal codec                        *)
(***************************************************************************)
print_parse_decimal_from_json(value) ==
    IF is_object(value)
    THEN IF get(value, "decimalMantissa").some /\ as_i64(value.o.decimalMantissa).some
         THEN LET mantissa == as_i64(value.o.decimalMantissa).v
                  places == IF get(value, "decimalPlaces").some
                               /\ as_u64(value.o.decimalPlaces).some
                            THEN as_u32(as_u64(value.o.decimalPlaces).v)
                            ELSE 0
              IN  Decimal_new(mantissa, places)
         ELSE ParseError("Unknown decimal format")
    ELSE IF as_f64(value).some
    THEN ok_or_else(Decimal_from_f64_retain(as_f64(value).v),
                    ParseError("Invalid decimal number"))
    ELSE IF as_str(value).some
    THEN ok_or_else(Decimal_from_str(as_str(value).v),
                    ParseError("Invalid decimal string"))
    ELSE ParseError("Unknown decimal format")

print_parse_price(value) ==
    IF is_null(value)
    THEN Ok(None)
    ELSE IF is_object(value) /\ get(value, "contents").some /\ is_object(value.o.contents)
    THEN try(IF get(value.o.contents, "aquantity").some
             THEN print_parse_decimal_from_json(value.o.contents.o.aquantity)
             ELSE Ok(Decimal_ZERO),
             LAMBDA quantity :
                 Ok(Some([commodity |-> str_or(value.o.contents, "acommodity", <<>>),
                          quantity |-> quantity])))
    ELSE Ok(None)

(***************************************************************************)
(* print.rs: transactions, postings, amounts and their styles              *)
(***************************************************************************)
\* .get(k).and_then(|d| d.as_str()).map(|s| s.to_string())
opt_str(obj, k) ==
    IF get(obj, k).some /\ as_str(obj.o[k]).some THEN Some(obj.o[k].s) ELSE None

\* .get(k).and_then(|s| s.as_bool()).unwrap_or(dflt)
bool_or(obj, k, dflt) ==
    IF get(obj, k).some /\ as_bool(obj.o[k]).some THEN obj.o[k].b ELSE dflt

\* .get(k).and_then(|i| i.as_u64()).unwrap_or(0) as u32
u32_at(obj, k) == IF get(obj, k).some THEN u32_or(obj.o[k], 0) ELSE 0

\* impl Default for AmountStyle
AmountStyle_default ==
    [commodity_side |-> <<"L">>, commodity_spaced |-> FALSE,
     decimal_mark |-> Some(<<".">>), digit_groups |-> None,
     precision |-> 2, rounding |-> <<"NoRounding">>]

\* asprecision: .as_u64().unwrap_or(2) as u16 keeps the low 16 bits
parse_amount_style(value) ==
    IF ~is_object(value)
    THEN ParseError("Amount style should be an object")
    ELSE Ok([commodity_side |-> str_or(value, "ascommodityside", <<"L">>),
             commodity_spaced |-> bool_or(value, "ascommodityspaced", FALSE),
             decimal_mark |-> opt_str(value, "asdecimalmark"),
             digit_groups |-> opt_str(value, "asdigitgroups"),
             precision |-> IF get(value, "asprecision").some
                              /\ as_u64(value.o.asprecision).some
                           THEN as_u64(value.o.asprecision).v.lo % 65536
                           ELSE 2,
             rounding |-> str_or(value, "asrounding", <<"NoRounding">>)])

\* the PrintAmount of an amount object: the body parse_print_amounts and
\* parse_single_print_amount share
print_amount_of(obj) ==
    try(IF get(obj, "aquantity").some
        THEN print_parse_decimal_from_json(obj.o.aquantity)
        ELSE Ok(Decimal_ZERO),
        LAMBDA quantity :
    try(IF get(obj, "aprice").some THEN print_parse_price(obj.o.aprice) ELSE Ok(None),
        LAMBDA price :
    try(IF get(obj, "astyle").some
        THEN parse_amount_style(obj.o.astyle)
        ELSE Ok(AmountStyle_default),
        LAMBDA style :
            Ok([commodity |-> str_or(obj, "acommodity", <<>>),
                quantity |-> quantity, price |-> price, style |-> style]))))

parse_print_amounts(value) ==
    IF is_array(value)
    THEN for_each(is_object, print_amount_of, value.a, 1, <<>>)
    ELSE Ok(<<>>)

parse_single_print_amount(value) ==
    IF ~is_object(value)
    THEN ParseError("Amount should be an object")
    ELSE print_amount_of(value)

parse_source_position(value) ==
    IF ~is_object(value)
    THEN None
    ELSE Some([line |-> u32_at(value, "sourceLine"),
               column |-> u32_at(value, "sourceColumn"),
               file |-> str_or(value, "sourceName", <<>>)])

parse_balance_assertion(value) ==
    IF is_null(value)
    THEN Ok(None)
    ELSE IF ~is_object(value)
    THEN ParseError("Balance assertion should be an object")
    ELSE IF ~get(value, "baamount").some
    THEN Ok(None)
    ELSE try(parse_single_print_amount(value.o.baamount),
             LAMBDA amount :
                 Ok(Some([amount |-> amount,
                          inclusive |-> bool_or(value, "bainclusive", FALSE),
                          total |-> bool_or(value, "batotal", FALSE),
                          position |->
                              IF get(value, "baposition").some
                                 /\ parse_source_position(value.o.baposition).some
                              THEN parse_source_position(value.o.baposition).v
                              ELSE [line |-> 0, column |-> 0, file |-> <<>>]])))

\* the ttags / ptags loop: pairs of strings, anything else passed over
parse_tags(obj, k) ==
    IF get(obj, k).some /\ is_array(obj.o[k])
    THEN for_each(is_pair,
                  LAMBDA tag_pair :
                      Ok(<<IF as_str(tag_pair.a[1]).some THEN tag_pair.a[1].s ELSE <<>>,
                           IF as_str(tag_pair.a[2]).some THEN tag_pair.a[2].s ELSE <<>> >>),
                  obj.o[k].a, 1, <<>>).v
    ELSE <<>>

RECURSIVE parse_posting(_)
parse_posting(value) ==
    IF ~is_object(value)
    THEN ParseError("Posting should be an object")
    ELSE try(IF get(value, "pamount").some
             THEN parse_print_amounts(value.o.pamount)
             ELSE Ok(<<>>),
             LAMBDA amounts :
         try(IF get(value, "pbalanceassertion").some
             THEN parse_balance_assertion(value.o.pbalanceassertion)
             ELSE Ok(None),
             LAMBDA balance_assertion :
         try(IF get(value, "poriginal").some /\ ~is_null(value.o.poriginal)
             THEN try(parse_posting(value.o.poriginal), LAMBDA orig : Ok(Some(orig)))
             ELSE Ok(None),
             LAMBDA original :
                 Ok([account |-> str_or(value, "paccount", <<>>),
                     amounts |-> amounts,
                     status |-> str_or(value, "pstatus", <<"Unmarked">>),
                     comment |-> str_or(value, "pcomment", <<>>),
                     tags |-> parse_tags(value, "ptags"),
                     posting_type |-> str_or(value, "ptype", <<"RegularPosting">>),
                     date |-> opt_str(value, "pdate"),
                     date2 |-> opt_str(value, "pdate2"),
                     balance_assertion |-> balance_assertion,
                     original |-> original,
                     transaction_index |-> str_or(value, "ptransaction_", <<>>)]))))

\* the tsourcepos loop keeps the positions parse_source_position returns
is_source_position(v) == parse_source_position(v).some

parse_transaction(value) ==
    IF ~is_object(value)
    THEN ParseError("Transaction should be an object")
    ELSE try(IF get(value, "tpostings").some /\ is_array(value.o.tpostings)
             THEN for_each(any, parse_posting, value.o.tpostings.a, 1, <<>>)
             ELSE Ok(<<>>),
             LAMBDA postings :
                 Ok([index |-> u32_at(value, "tindex"),
                     date |-> str_or(value, "tdate", <<>>),
                     date2 |-> opt_str(value, "tdate2"),
                     status |-> str_or(value, "tstatus", <<"Unmarked">>),
                     code |-> str_or(value, "tcode", <<>>),
                     description |-> str_or(value, "tdescription", <<>>),
                     comment |-> str_or(value, "tcomment", <<>>),
                     tags |-> parse_tags(value, "ttags"),
                     postings |-> postings,
                     preceding_comment |-> str_or(value, "tprecedingcomment", <<>>),
                     source_positions |->
                         IF get(value, "tsourcepos").some /\ is_array(value.o.tsourcepos)
                         THEN for_each(is_source_position,
                                       LAMBDA pos : Ok(parse_source_position(pos).v),
                                       value.o.tsourcepos.a, 1, <<>>).v
                         ELSE <<>>]))

parse_print_output(value) ==
    IF ~is_array(value)
    THEN ParseError("Expected array for print output")
    ELSE for_each(any, parse_transaction, value.a, 1, <<>>)

(***************************************************************************)
(* The command line of a report call.  An argument is a word; the          *)
(* argument format!("--drop={}", n) builds keeps its flag and its value.   *)
(* A report's flags are the lines of its function in their order, each     *)
(* line one row of a table:                                                *)
(*   If       if options.f { cmd.arg(flag) }                               *)
(*   IfElse   if options.f { cmd.arg(flag) } else { cmd.arg(other) }       *)
(*   ElseIf   if options.f1 { cmd.arg(flag1) } else if options.f2 { .. }   *)
(*   Always   cmd.arg(flag)                                                *)
(*   Format   if let Some(v) = options.f { cmd.arg(format!("flag{}", v)) } *)
(*   Pair     if let Some(v) = options.f { cmd.arg(flag).arg(v) }          *)
(***************************************************************************)
W(s) == [w |-> s]

WithValue(flag, v) == [w |-> flag, v |-> v]

If(f, flag) == [k |-> "If", fs |-> <<f>>, flags |-> <<flag>>]

IfElse(f, flag, other) == [k |-> "IfElse", fs |-> <<f>>, flags |-> <<flag, other>>]

ElseIf(fs, flags) == [k |-> "ElseIf", fs |-> fs, flags |-> flags]

Always(flag) == [k |-> "Always", fs |-> <<>>, flags |-> <<flag>>]

Format(f, flag) == [k |-> "Format", fs |-> <<f>>, flags |-> <<flag>>]

Pair(f, flag) == [k |-> "Pair", fs |-> <<f>>, flags |-> <<flag>>]

\* the arguments one row adds under the given options
emit(row, options) ==
    CASE row.k = "If" ->
           IF options[row.fs[1]] THEN <<W(row.flags[1])>> ELSE <<>>
      [] row.k = "IfElse" ->
           IF options[row.fs[1]] THEN <<W(row.flags[1])>> ELSE <<W(row.flags[2])>>
      [] row.k = "ElseIf" ->
           IF \E i \in DOMAIN row.fs : options[row.fs[i]]
           THEN <<W(row.flags[CHOOSE i \in DOMAIN row.fs :
                        /\ options[row.fs[i]]
                        /\ \A j \in 1..(i - 1) : ~options[row.fs[j]]])>>
           ELSE <<>>
      [] row.k = "Always" -> <<W(row.flags[1])>>
      [] row.k = "Format" ->
           IF options[row.fs[1]].some
           THEN <<WithValue(row.flags[1], options[row.fs[1]].v)>>
           ELSE <<>>
      [] row.k = "Pair" ->
           IF options[row.fs[1]].some
           THEN <<W(row.flags[1]), W(options[row.fs[1]].v)>>
           ELSE <<>>

\* the arguments the rows from row i on add, in their order
RECURSIVE emit_from(_, _, _)
emit_from(rows, options, i) ==
    IF i > Len(rows) THEN <<>> ELSE emit(rows[i], options) \o emit_from(rows, options, i + 1)

\* the status and filter flags every report ends with
status_flags ==
    <<If("unmarked", "--unmarked"), If("pending", "--pending"),
      If("cleared", "--cleared"), If("real", "--real")>>

accounts_flags ==
    <<If("used", "--used"), If("declared", "--declared"), If("unused", "--unused"),
      If("undeclared", "--undeclared"), If("types", "--types"),
      If("positions", "--positions"), If("directives", "--directives"),
      If("find", "--find"), Always("--flat"),
      Format("drop", "--drop="), Format("depth", "--depth="),
      Pair("begin", "--begin"), Pair("end", "--end"), Pair("period", "--period")>>
    \o status_flags \o <<If("empty", "--empty")>>

\* --drop ... --percent, the same lines in balance and incomestatement
display_flags ==
    <<Format("drop", "--drop="), If("declared", "--declared"),
      If("average", "--average"), If("row_total", "--row-total"),
      If("summary_only", "--summary-only"), If("no_total", "--no-total"),
      If("no_elide", "--no-elide"), If("sort_amount", "--sort-amount"),
      If("percent", "--percent")>>

\* --layout ... --value, the same lines in balance and incomestatement
filter_flags ==
    <<Format("layout", "--layout="), Format("depth", "--depth="),
      If("empty", "--empty"), Pair("begin", "--begin"), Pair("end", "--end")>>
    \o status_flags
    \o <<If("cost", "--cost"), If("market", "--market"),
         Pair("exchange", "--exchange"), Format("value", "--value=")>>

\* --daily ... --period, the same lines in balance and incomestatement
period_flags ==
    <<If("daily", "--daily"), If("weekly", "--weekly"), If("monthly", "--monthly"),
      If("quarterly", "--quarterly"), If("yearly", "--yearly"),
      Pair("period", "--period")>>

\* seeded fault: --tree and --flat each added when its own field is true
balance_flags_flat_read ==
    period_flags
    \o <<If("valuechange", "--valuechange"), If("gain", "--gain"),
         Format("budget", "--budget="), If("count", "--count"),
         If("cumulative", "--cumulative"), If("historical", "--historical"),
         If("tree", "--tree"), If("flat", "--flat")>>
    \o display_flags
    \o <<If("related", "--related"), If("invert", "--invert"),
         If("transpose", "--transpose")>>
    \o filter_flags

balance_flags ==
    period_flags
    \o <<If("valuechange", "--valuechange"), If("gain", "--gain"),
         Format("budget", "--budget="), If("count", "--count"),
         If("cumulative", "--cumulative"), If("historical", "--historical"),
         IfElse("tree", "--tree", "--flat")>>
    \o display_flags
    \o <<If("related", "--related"), If("invert", "--invert"),
         If("transpose", "--transpose")>>
    \o filter_flags

incomestatement_flags ==
    period_flags
    \o <<If("valuechange", "--valuechange"), If("gain", "--gain"),
         If("change", "--change"), If("cumulative", "--cumulative"),
         If("historical", "--historical"), IfElse("tree", "--tree", "--flat")>>
    \o display_flags
    \o filter_flags

\* seeded fault: every mode flag added by an if of its own, as in get_balance
cashflow_flags_every_mode ==
    <<If("valuechange", "--valuechange"), If("gain", "--gain"), If("budget", "--budget"),
      If("cumulative", "--cumulative"), If("historical", "--historical"),
      If("tree", "--tree"),
      Format("drop", "--drop="), If("declared", "--declared"),
      If("average", "--average"), If("row_total", "--row-total"),
      If("summary_only", "--summary-only"), If("no_total", "--no-total"),
      If("no_elide", "--no-elide"), Format("format", "--format="),
      If("sort_amount", "--sort-amount"), If("percent", "--percent"),
      Format("layout", "--layout="), Format("base_url", "--base-url="),
      Pair("begin", "--begin"), Pair("end", "--end"), Pair("period", "--period"),
      If("daily", "--daily"), If("weekly", "--weekly"), If("monthly", "--monthly"),
      If("quarterly", "--quarterly"), If("yearly", "--yearly"),
      Format("depth", "--depth="), If("empty", "--empty")>>

cashflow_flags ==
    <<ElseIf(<<"valuechange", "gain", "budget">>, <<"--valuechange", "--gain", "--budget">>),
      ElseIf(<<"cumulative", "historical">>, <<"--cumulative", "--historical">>),
      If("tree", "--tree"),
      Format("drop", "--drop="), If("declared", "--declared"),
      If("average", "--average"), If("row_total", "--row-total"),
      If("summary_only", "--summary-only"), If("no_total", "--no-total"),
      If("no_elide", "--no-elide"), Format("format", "--format="),
      If("sort_amount", "--sort-amount"), If("percent", "--percent"),
      Format("layout", "--layout="), Format("base_url", "--base-url="),
      Pair("begin", "--begin"), Pair("end", "--end"), Pair("period", "--period"),
      ElseIf(<<"daily", "weekly", "monthly", "quarterly", "yearly">>,
             <<"--daily", "--weekly", "--monthly", "--quarterly", "--yearly">>),
      Format("depth", "--depth="), If("empty", "--empty")>>

print_flags ==
    <<If("explicit", "--explicit"), If("show_costs", "--show-costs"),
      Format("round", "--round="), If("new", "--new"), Pair("match_desc", "--match"),
      Pair("begin", "--begin"), Pair("end", "--end")>>
    \o status_flags \o <<If("empty", "--empty")>>

Kinds == {"accounts", "balance", "incomestatement", "cashflow", "print"}

flags_of(kind) ==
    CASE kind = "accounts" -> accounts_flags
      [] kind = "balance" -> balance_flags
      [] kind = "incomestatement" -> incomestatement_flags
      [] kind = "cashflow" -> cashflow_flags
      [] kind = "print" -> print_flags

\* config.rs: the binary of the Command
get_hledger_command(hledger_path) ==
    IF hledger_path.some THEN hledger_path.v ELSE "hledger"

\* the first line of each report function: only get_incomestatement takes
\* the caller's path, the others run Command::new("hledger")
command_program(kind, hledger_path) ==
    IF kind = "incomestatement" THEN get_hledger_command(hledger_path) ELSE "hledger"

\* seeded fault: the query patterns appended last to first
query_args_reversed(queries) ==
    [i \in 1..Len(queries) |-> W(queries[Len(queries) + 1 - i])]

\* for query in &options.queries { cmd.arg(query) }  (CashflowOptions names
\* the field query; the model names it queries for every kind)
query_args(queries) == [i \in 1..Len(queries) |-> W(queries[i])]

\* seeded fault: the -f pair added after the subcommand and output format
command_args_file_after_subcommand(kind, journal_file, options) ==
    <<W(kind)>>
    \o (IF kind = "accounts" THEN <<>> ELSE <<W("--output-format"), W("json")>>)
    \o (IF journal_file.some THEN <<W("-f"), W(journal_file.v)>> ELSE <<>>)
    \o emit_from(flags_of(kind), options, 1)
    \o query_args(options.queries)

\* the arguments of the Command, from -f to the query patterns;
\* get_accounts asks for no output format and reads lines of text
command_args(kind, journal_file, options) ==
    (IF journal_file.some THEN <<W("-f"), W(journal_file.v)>> ELSE <<>>)
    \o <<W(kind)>>
    \o (IF kind = "accounts" THEN <<>> ELSE <<W("--output-format"), W("json")>>)
    \o emit_from(flags_of(kind), options, 1)
    \o query_args(options.queries)

(***************************************************************************)
(* The outcome of the external process and what a report function makes    *)
(* of it.  The bytes of a stream are tokens: a character, a byte that is   *)
(* not valid UTF-8, or the text of one JSON document (whose string         *)
(* literals may hold bytes that are not valid UTF-8).                      *)
(***************************************************************************)
HLedgerNotFound == [tag |-> "Err", e |-> "HLedgerNotFound"]

Io == [tag |-> "Err", e |-> "Io"]

CommandFailed(code, stderr) ==
    [tag |-> "Err", e |-> "CommandFailed", code |-> code, stderr |-> stderr]

InvalidUtf8 == [tag |-> "Err", e |-> "InvalidUtf8"]

Json == [tag |-> "Err", e |-> "Json"]

Byte(c) == [b |-> c, utf8 |-> TRUE]

InvalidByte == [b |-> "0xFF", utf8 |-> FALSE]

\* U+FFFD REPLACEMENT CHARACTER
Replacement == Byte("U+FFFD")

Doc(d, utf8) == [doc |-> d, utf8 |-> utf8]

\* String::from_utf8: the text, or the error when a byte is invalid
String_from_utf8(bytes) ==
    IF \A i \in DOMAIN bytes : bytes[i].utf8 THEN Ok(bytes) ELSE InvalidUtf8

\* String::from_utf8_lossy: each invalid byte becomes U+FFFD.  A JSON
\* document keeps its structure: the invalid bytes stand inside its string
\* literals, whose characters the model does not tell apart
String_from_utf8_lossy(bytes) ==
    [i \in DOMAIN bytes |->
        IF bytes[i].utf8 THEN bytes[i]
        ELSE IF "doc" \in DOMAIN bytes[i] THEN Doc(bytes[i].doc, TRUE)
        ELSE Replacement]

\* serde_json::from_str: the value of a text that is one JSON document
serde_json_from_str(text) ==
    IF Len(text) = 1 /\ "doc" \in DOMAIN text[1] THEN Ok(text[1].doc) ELSE Json

is_whitespace(c) == c \in {Byte(" "), Byte("\n")}

\* str::lines: the text between line feeds; a last line with no line feed
\* counts when it is not empty
RECURSIVE lines_from(_, _, _, _)
lines_from(text, i, line, acc) ==
    IF i > Len(text)
    THEN IF line = <<>> THEN acc ELSE Append(acc, line)
    ELSE IF text[i] = Byte("\n")
    THEN lines_from(text, i + 1, <<>>, Append(acc, line))
    ELSE lines_from(text, i + 1, Append(line, text[i]), acc)

\* str::trim
trim(line) ==
    IF \A i \in DOMAIN line : is_whitespace(line[i])
    THEN <<>>
    ELSE SubSeq(line,
                CHOOSE i \in DOMAIN line :
                    ~is_whitespace(line[i]) /\ \A j \in 1..(i - 1) : is_whitespace(line[j]),
                CHOOSE i \in DOMAIN line :
                    ~is_whitespace(line[i])
                    /\ \A j \in (i + 1)..Len(line) : is_whitespace(line[j]))

\* get_accounts: stdout.lines().map(trim).filter(|line| !line.is_empty())
is_not_empty(line) == line # <<>>

\* seeded fault: the lines kept as printed, neither trimmed nor filtered
account_lines_as_printed(stdout) == lines_from(stdout, 1, <<>>, <<>>)

account_lines(stdout) ==
    SelectSeq([i \in DOMAIN lines_from(stdout, 1, <<>>, <<>>) |->
                  trim(lines_from(stdout, 1, <<>>, <<>>)[i])],
              is_not_empty)

\* the report parser of each JSON report function
parse_report(kind, json_value) ==
    CASE kind = "balance" -> balance_report_of_json(json_value)
      [] kind = "incomestatement" -> parse_incomestatement_report(json_value)
      [] kind = "cashflow" -> parse_cashflow_report(json_value)
      [] kind = "print" -> parse_print_output(json_value)

\* a report function after the exit-status check: get_cashflow decodes
\* stdout with from_utf8_lossy, the others with from_utf8
report_of_stdout(kind, stdout) ==
    IF kind = "cashflow"
    THEN try(serde_json_from_str(String_from_utf8_lossy(stdout)),
             LAMBDA value : parse_report(kind, value))
    ELSE try(String_from_utf8(stdout),
             LAMBDA text :
                 IF kind = "accounts"
                 THEN Ok(account_lines(text))
                 ELSE try(serde_json_from_str(text),
                          LAMBDA json_value : parse_report(kind, json_value)))

\* ExitStatus::success
success(status) == status.code.some /\ status.code.v = 0

\* seeded fault: a process ended by a signal reported with exit code 0
command_failed_code_zero(output) ==
    CommandFailed(IF output.status.code.some THEN output.status.code.v ELSE 0,
                  String_from_utf8_lossy(output.stderr))

\* CommandFailed { code: status.code().unwrap_or(-1), stderr: lossy text }
command_failed(output) ==
    CommandFailed(IF output.status.code.some THEN output.status.code.v ELSE -1,
                  String_from_utf8_lossy(output.stderr))

\* a report function from cmd.output() on
result_of_output(kind, output) ==
    IF output.launch = "NotFound" THEN HLedgerNotFound
    ELSE IF output.launch = "Error" THEN Io
    ELSE IF ~success(output.status) THEN command_failed(output)
    ELSE report_of_stdout(kind, output.stdout)

(***************************************************************************)
(* The JSON values the parsers are applied to.                             *)
(***************************************************************************)
SeqsUpTo(S, n) == UNION {[1..k -> S] : k \in 0..n}

Str_usd == <<"$">>

Str_eur == <<"E", "U", "R">>

Str_acct == <<"a", ":", "b">>

DecObj(m, p) == JObj([decimalMantissa |-> m, decimalPlaces |-> p])

\* 10000, -5, 2^32, 2^63 (beyond i64), 20.5, "1"
MantissaVals ==
    {JNat(10000), JNeg(0, 5), JPos(0, 1, 0), JPos(1, 0, 0),
     JFloat(FALSE, 205, 1, FALSE), JStr(<<"1">>)}

\* 0, 2, 28, 29, 2^32 + 2, -1, 2.0, null
PlacesVals ==
    {JNat(0), JNat(2), JNat(MAX_SCALE), JNat(MAX_SCALE + 1), JPos(0, 1, 2),
     JNeg(0, 1), JFloat(FALSE, 2, 0, FALSE), JNull}

DecimalObjs ==
    {DecObj(m, p) : m \in MantissaVals, p \in PlacesVals}
    \cup {JObj([decimalMantissa |-> m]) : m \in MantissaVals}
    \cup {JObj([decimalPlaces |-> JNat(2)]), EmptyObj,
          JObj([decimalMantissa |-> JNat(2050), decimalPlaces |-> JNat(2),
                floatingPoint |-> JFloat(FALSE, 205, 1, FALSE)])}

DecimalStrings ==
    {<<"2", "0", ".", "5", "0">>, <<"-", "3">>, <<"+", "7">>, <<"1", "_", "0">>,
     <<"a", "b", "c">>, <<>>, <<"1", ".", "2", ".", "3">>, <<".">>, <<"1", "-">>,
     <<"3", "0", ".", "2", "5">>}

QuantityVals ==
    DecimalObjs
    \cup {JNat(20), JNeg(0, 3), JPos(1, 0, 0), JFloat(FALSE, 205, 1, FALSE),
          JFloat(TRUE, 25, 2, FALSE), JFloat(FALSE, 1, 0, TRUE)}
    \cup {JStr(s) : s \in DecimalStrings}
    \cup {JNull, JBool(TRUE), JBool(FALSE), JArr(<<>>), JArr(<<JNat(1)>>)}

\* the amount objects a price envelope may carry
PriceAmountObjs ==
    {JObj([acommodity |-> JStr(Str_eur), aquantity |-> DecObj(JNat(150), JNat(2))]),
     JObj([acommodity |-> JStr(Str_usd), aquantity |-> JStr(<<"3">>)]),
     EmptyObj,
     JObj([acommodity |-> JNat(5), aquantity |-> JNat(4)]),
     JObj([acommodity |-> JStr(Str_usd), aquantity |-> JNull]),
     JObj([acommodity |-> JStr(Str_eur), aquantity |-> DecObj(JNat(1), JNat(MAX_SCALE + 1))])}

PriceVals ==
    {JNull, JBool(TRUE), JStr(Str_usd), JArr(<<>>), EmptyObj, JNat(3)}
    \cup {JObj([tag |-> JStr(<<"U">>), contents |-> a]) : a \in PriceAmountObjs}
    \cup {JObj([priceAmount |-> a]) : a \in PriceAmountObjs}
    \cup {JObj([contents |-> a, priceAmount |-> b]) :
              a \in PriceAmountObjs \cup {JNull, JStr(Str_usd)},
              b \in PriceAmountObjs \cup {JNull}}

Amt_ok == JObj([acommodity |-> JStr(Str_usd), aquantity |-> DecObj(JNat(10000), JNat(2))])

Amt_priced ==
    JObj([acommodity |-> JStr(Str_eur), aquantity |-> JNat(10),
          aprice |-> JObj([tag |-> JStr(<<"U">>),
                           contents |-> JObj([acommodity |-> JStr(Str_usd),
                                              aquantity |-> DecObj(JNat(150), JNat(2))])])])

Amt_bad_quantity == JObj([acommodity |-> JStr(Str_usd), aquantity |-> JNull])

Amt_bad_scale ==
    JObj([acommodity |-> JStr(Str_usd), aquantity |-> DecObj(JNat(1), JNat(MAX_SCALE + 1))])

\* elements of an amounts array: JNull is the element that is not an object
AmountElems == {Amt_ok, Amt_priced, Amt_bad_quantity, Amt_bad_scale, JNull}

\* an amount of valid commodity and quantity under every price value
PricedAmounts ==
    {JObj([acommodity |-> JStr(Str_eur), aquantity |-> DecObj(JNat(10000), JNat(2)),
           aprice |-> p]) : p \in PriceVals}

\* an amount of valid commodity and no price under every quantity value
QuantifiedAmounts ==
    {JObj([acommodity |-> JStr(Str_usd), aquantity |-> q]) : q \in QuantityVals}

AmountsVals ==
    {JArr(s) : s \in SeqsUpTo(AmountElems, MaxLen)}
    \cup {JArr(<<a>>) : a \in PricedAmounts \cup QuantifiedAmounts}
    \cup {JNull, JStr(Str_usd)}

\* a few amounts arrays for the entries of larger documents
FewAmounts == {JArr(<<Amt_ok>>), JArr(<<>>), JArr(<<Amt_bad_quantity>>), JNull}

AccountEntries ==
    {JArr(<<JStr(Str_acct), JStr(Str_acct), JNat(0), am>>) : am \in FewAmounts}
    \cup {JArr(<<JStr(Str_acct), JStr(Str_acct), JNat(0)>>),
          JArr(<<JNat(1), JNull, JStr(Str_usd), JArr(<<Amt_ok>>)>>),
          JArr(<<JStr(Str_acct), JStr(<<"b">>), JNat(1), JArr(<<Amt_ok>>), JNull>>),
          JNull}

SimpleDocs ==
    {JArr(<<acc, tot>>) :
        acc \in {JArr(s) : s \in SeqsUpTo(AccountEntries, MaxLen)} \cup {JNull},
        tot \in FewAmounts}

TaggedDate(d) == JObj([tag |-> JStr(<<"E">>), contents |-> JStr(d)])

Date_1 == <<"2", "4", "-", "0", "1">>

Date_2 == <<"2", "4", "-", "0", "2">>

DateEntries ==
    {JArr(<<TaggedDate(Date_1), TaggedDate(Date_2)>>),
     JArr(<<TaggedDate(Date_1)>>),
     JArr(<<JStr(Date_1), TaggedDate(Date_2)>>),
     JNull}

DatesVals == {JArr(s) : s \in SeqsUpTo(DateEntries, MaxLen)} \cup {JNull}

RowEntries ==
    {JObj([prrName |-> JStr(Str_acct), prrAmounts |-> JArr(<<JArr(<<Amt_ok>>)>>),
           prrTotal |-> JArr(<<Amt_ok>>), prrAverage |-> JArr(<<Amt_ok>>)]),
     JObj([prrName |-> JArr(<<>>),
           prrAmounts |-> JArr(<<JArr(<<Amt_ok>>), JArr(<<>>)>>)]),
     JObj([prrName |-> JStr(Str_acct), prrAmounts |-> JArr(<<JArr(<<Amt_bad_quantity>>)>>)]),
     JObj([prrName |-> JStr(Str_acct), prrAmounts |-> JNull, prrTotal |-> JNull]),
     JNull}

RowsVals == {JArr(s) : s \in SeqsUpTo(RowEntries, MaxLen)} \cup {JNull}

Dates_one == JArr(<<JArr(<<TaggedDate(Date_1), TaggedDate(Date_2)>>)>>)

TotalsRows ==
    {JObj([prrName |-> JArr(<<>>), prrAmounts |-> JArr(<<JArr(<<Amt_ok>>)>>)]), JNull}

PeriodicDocs ==
    {JObj([prDates |-> d, prRows |-> JArr(<<>>)]) : d \in DatesVals}
    \cup {JObj([prDates |-> Dates_one, prRows |-> r]) : r \in RowsVals}
    \cup {JObj([prDates |-> Dates_one, prRows |-> r, prTotals |-> t]) :
              r \in {JArr(<<>>), JArr(<<JNull>>)}, t \in TotalsRows}
    \cup {JObj([prDates |-> Dates_one]), JObj([prDates |-> JNull]),
          JObj([prDates |-> Dates_one, prTotals |-> JNull])}

\* top-level shapes that are neither a two-element array nor a prDates object
OtherDocs ==
    {JNull, JBool(TRUE), JNat(1), JStr(Str_acct), EmptyObj,
     JObj([prRows |-> JArr(<<>>)]),
     JArr(<<>>), JArr(<<JArr(<<>>)>>),
     JArr(<<JArr(<<>>), JArr(<<>>), JArr(<<>>)>>),
     JArr(<<JArr(<<>>), JArr(<<Amt_ok>>), JNull>>)}

\* a periodic report with one row, and one whose row fails
Sub_ok ==
    JObj([prDates |-> Dates_one,
          prRows |-> JArr(<<JObj([prrName |-> JStr(Str_acct),
                                  prrAmounts |-> JArr(<<JArr(<<Amt_ok>>)>>)])>>),
          prTotals |-> JObj([prrName |-> JArr(<<>>),
                             prrAmounts |-> JArr(<<JArr(<<Amt_ok>>)>>)])])

Sub_bad == JObj([prDates |-> Dates_one, prRows |-> JArr(<<JNull>>)])

\* a periodic report of one date whose row carries two period amounts
Sub_wide ==
    JObj([prDates |-> Dates_one,
          prRows |-> JArr(<<JObj([prrName |-> JStr(Str_acct),
                                  prrAmounts |-> JArr(<<JArr(<<Amt_ok>>), JArr(<<>>)>>)])>>)])

\* a periodic report with no prRows key
Sub_no_rows == JObj([prDates |-> Dates_one])

SubreportEntries ==
    {JArr(<<JStr(<<"R">>), Sub_ok, JBool(TRUE)>>),
     JArr(<<JStr(<<"W">>), Sub_wide, JBool(TRUE)>>),
     JArr(<<JStr(<<"N">>), Sub_no_rows, JBool(TRUE)>>),
     JArr(<<JStr(<<"X">>), Sub_ok, JBool(FALSE)>>),
     JArr(<<JStr(<<"X">>), Sub_ok, JNull>>),
     JArr(<<JStr(<<"R">>), Sub_bad, JBool(TRUE)>>),
     JArr(<<JStr(<<"R">>), Sub_ok>>),
     JNull}

\* the documents of incomestatement and cashflow
CompoundDocs ==
    {JObj([cbrTitle |-> JStr(<<"T">>), cbrDates |-> Dates_one,
           cbrSubreports |-> JArr(subs)]) : subs \in SeqsUpTo(SubreportEntries, MaxLen)}
    \cup {JObj([cbrDates |-> d, cbrSubreports |-> JArr(<<>>), cbrTotals |-> t]) :
              d \in DatesVals, t \in TotalsRows}
    \cup {JObj([cbrDates |-> Dates_one]), JObj([cbrSubreports |-> JArr(<<>>)]),
          JObj([cbrDates |-> Dates_one, cbrSubreports |-> JNull])}

Style_vals ==
    {JObj([ascommodityside |-> JStr(<<"R">>), ascommodityspaced |-> JBool(TRUE),
           asdecimalmark |-> JStr(<<",">>), asprecision |-> JNat(3)]),
     JObj([asdigitgroups |-> JStr(<<",">>), asrounding |-> JStr(<<"HardRounding">>),
           asprecision |-> JNat(0)]),
     JObj([asprecision |-> JNat(65538)]), EmptyObj, JNull}

PostingAmounts ==
    {JArr(<<Amt_ok>>), JArr(<<Amt_priced, JNull>>), JArr(<<Amt_bad_quantity>>), JNull}
    \cup {JArr(<<JObj([acommodity |-> JStr(Str_usd), aquantity |-> JNat(5),
                       astyle |-> st])>>) : st \in Style_vals}
    \cup {JArr(<<JObj([acommodity |-> JStr(Str_usd), aquantity |-> JNat(5),
                       aprice |-> pr])>>) :
              pr \in {JNull, JObj([priceAmount |-> Amt_ok]), JObj([contents |-> Amt_ok])}}

PostingVals ==
    {JObj([paccount |-> JStr(Str_acct), pamount |-> am]) : am \in PostingAmounts}
    \cup {JObj([pamount |-> JArr(<<Amt_ok>>),
                pbalanceassertion |-> ba,
                poriginal |-> orig]) :
              ba \in {JNull, JBool(TRUE), EmptyObj,
                      JObj([baamount |-> Amt_ok, batotal |-> JBool(TRUE),
                            baposition |-> JObj([sourceLine |-> JNat(7)])]),
                      JObj([baamount |-> JNull])},
              orig \in {JNull, JBool(TRUE),
                        JObj([paccount |-> JStr(Str_acct), ptags |-> JArr(<<JNull>>)])}}
    \cup {JNull}

TransactionVals ==
    {JObj([tindex |-> JNat(1), tdate |-> JStr(Date_1), tdescription |-> JStr(Str_acct),
           ttags |-> JArr(<<JArr(<<JStr(<<"k">>), JStr(<<"v">>)>>), JNull>>),
           tsourcepos |-> JArr(<<JObj([sourceName |-> JStr(<<"j">>),
                                       sourceLine |-> JNat(1)]), JNull>>),
           tpostings |-> JArr(ps)]) : ps \in SeqsUpTo(PostingVals, 1)}
    \cup {JObj([tpostings |-> JNull]), EmptyObj, JNull}

\* the documents of print
PrintDocs ==
    {JArr(<<t>>) : t \in TransactionVals}
    \cup {JArr(ts) : ts \in SeqsUpTo({JObj([tdate |-> JStr(Date_1)]), EmptyObj, JNull},
                                     MaxLen)}

\* what hledger, or anything else, may put under prrName
RowNameVals ==
    {JStr(Str_acct), JStr(<<>>), JArr(<<>>), JArr(<<JStr(Str_acct)>>), JNull, JNat(1),
     JBool(TRUE), EmptyObj}

\* rows handed to a periodic-row parser: every name with and without
\* amounts, rows without a name, and values that are no rows
RowInputs ==
    RowEntries \cup TotalsRows
    \cup {JObj([prrName |-> n]) : n \in RowNameVals}
    \cup {JObj([prrName |-> n, prrAmounts |-> JArr(<<JArr(<<Amt_ok>>)>>),
                prrTotal |-> t]) :
              n \in RowNameVals, t \in {JArr(<<Amt_ok>>), JArr(<<Amt_bad_quantity>>)}}
    \cup {JObj([prrAmounts |-> JArr(<<JArr(<<Amt_ok>>)>>), prrAverage |-> JArr(<<>>)]),
          JArr(<<>>), JStr(Str_acct)}

JsonInputs ==
    QuantityVals \cup PriceVals \cup AmountsVals \cup SimpleDocs \cup PeriodicDocs
    \cup OtherDocs \cup CompoundDocs \cup PrintDocs \cup RowInputs

(***************************************************************************)
(* The state.                                                              *)
(***************************************************************************)
VARIABLES
    json_in,      \* SpecParse: the serde_json::Value handed to a parser
    parser,       \* SpecParse: the parser applied to it ("none" before)
    parsed,       \* SpecParse: what that parser returned
    parsed_again, \* SpecParse: what a second call of that parser on the
                  \*            same value returned (None before it)
    pc,           \* Spec: "idle", "built" (the Command is complete),
                  \*       "running" (the process runs), "returned"
    call,         \* Spec: the call: the report function (kind), the binary
                  \*       path its caller holds, journal_file and options
    cmd,          \* Spec: the Command: its program and its arguments
    output,       \* Spec: what cmd.output() gave
    result,       \* Spec: what the report function returned
    built,        \* SpecBuild: the options struct under construction: its
                  \*            type, its fields, and the builder calls
                  \*            chained on X::new() so far (None before new)
    mutex,        \* SpecApp: the thread holding the guard of
                  \*          AppState.hledger_path (None when unlocked)
    hledger_path, \* SpecApp: the Option<String> inside that Mutex
    threads       \* SpecApp: where each thread running a tauri command is

parse_vars == <<json_in, parser, parsed, parsed_again>>

run_vars == <<pc, call, cmd, output, result>>

build_vars == <<built>>

app_vars == <<mutex, hledger_path, threads>>

vars == <<json_in, parser, parsed, parsed_again, pc, call, cmd, output, result,
          built, mutex, hledger_path, threads>>

(***************************************************************************)
(* The calls of Spec: options, journal files, paths, process outcomes.     *)
(***************************************************************************)
\* the flags of the four axes on which two flags contradict each other
ModeFlags ==
    {"--valuechange", "--gain", "--budget", "--budget=", "--count",
     "--change", "--cumulative", "--historical", "--flat", "--tree",
     "--daily", "--weekly", "--monthly", "--quarterly", "--yearly"}

fields_in(rows) == UNION {{row.fs[i] : i \in DOMAIN row.fs} : row \in rows}

rows_of(k) == {flags_of(k)[i] : i \in DOMAIN flags_of(k)}

\* the fields of the options struct each function reads
fields_of == [k \in Kinds |-> fields_in(rows_of(k))]

\* the Option<..> fields among them
optional_fields ==
    [k \in Kinds |-> fields_in({row \in rows_of(k) : row.k \in {"Format", "Pair"}})]

\* the fields that choose a flag of one of the four axes
mode_fields ==
    [k \in Kinds |->
        fields_in({row \in rows_of(k) :
                      \E i \in DOMAIN row.flags : row.flags[i] \in ModeFlags})]

\* the mode booleans of the struct that its report function never reads
unread_fields ==
    [k \in Kinds |->
        CASE k \in {"balance", "incomestatement"} -> {"flat"}
          [] k = "cashflow" -> {"sum", "change", "flat"}
          [] OTHER -> {}]

\* an options value: the fields in `on` are true / Some(..), the others
\* are what Default gives them
options_with(k, on, queries) ==
    [f \in fields_of[k] \cup unread_fields[k] \cup {"queries"} |->
        IF f = "queries" THEN queries
        ELSE IF f \in optional_fields[k]
        THEN IF f \in on THEN Some(IF f \in {"drop", "depth"} THEN 2 ELSE "v") ELSE None
        ELSE f \in on]

QueryInputs == SeqsUpTo({"expenses", "--tree"}, MaxQueries)

OptionsInputs ==
    [k \in Kinds |->
        {options_with(k, modes \cup others, queries) :
            modes \in {m \in SUBSET (mode_fields[k] \cup unread_fields[k]) :
                          Cardinality(m) <= MaxModes},
            others \in {{}, fields_of[k] \ mode_fields[k]},
            queries \in QueryInputs}]

JournalInputs == {None, Some("main.journal")}

PathInputs == {None, Some("/opt/bin/hledger")}

StderrInputs == {<<>>, <<Byte("e"), Byte("r"), Byte("r")>>, <<Byte("e"), InvalidByte>>}

\* exit codes, and termination by a signal (no code)
StatusInputs == {[code |-> Some(0)], [code |-> Some(1)], [code |-> None]}

ReportDocs(k) ==
    CASE k = "balance" -> SimpleDocs \cup PeriodicDocs \cup OtherDocs
      [] k = "incomestatement" -> CompoundDocs \cup {JNull}
      [] k = "cashflow" -> CompoundDocs \cup {JNull}
      [] k = "print" -> PrintDocs \cup {JNull}

StdoutInputs(k) ==
    IF k = "accounts"
    THEN SeqsUpTo({Byte("a"), Byte(" "), Byte("\n")}, MaxText)
         \cup {<<Byte("a"), InvalidByte>>, <<InvalidByte>>}
    ELSE {<<Doc(d, u)>> : d \in ReportDocs(k), u \in BOOLEAN}
         \cup {<<>>, <<Byte("a")>>, <<InvalidByte>>,
               <<Doc(JArr(<<>>), TRUE), InvalidByte>>}

OutputInputs ==
    [k \in Kinds |->
        {[launch |-> "NotFound"], [launch |-> "Error"]}
        \cup {[launch |-> "Ok", status |-> st, stdout |-> out, stderr |-> err] :
                  st \in StatusInputs, out \in StdoutInputs(k), err \in StderrInputs}]

(***************************************************************************)
(* SpecParse: one parser applied to one JSON value.                        *)
(***************************************************************************)
\* Spec at rest: no call made
Idle ==
    /\ pc = "idle"
    /\ call = None
    /\ cmd = None
    /\ output = None
    /\ result = None

\* SpecBuild at rest: no options struct made
Unbuilt == built = None

\* the threads that run tauri commands at the same time
Threads == {1, 2}

\* SpecApp at rest: the state main() manages, and no command running
AppIdle ==
    /\ mutex = None
    /\ hledger_path = None
    /\ threads = [t \in Threads |-> [pc |-> "idle"]]

InitParse ==
    /\ json_in \in JsonInputs
    /\ parser = "none"
    /\ parsed = None
    /\ parsed_again = None
    /\ Idle
    /\ Unbuilt
    /\ AppIdle

Apply(name, value) ==
    /\ parser = "none"
    /\ parser' = name
    /\ parsed' = value
    /\ UNCHANGED <<json_in, parsed_again, run_vars, build_vars, app_vars>>

Apply_parse_decimal_from_json ==
    Apply("parse_decimal_from_json", parse_decimal_from_json(json_in))

Apply_print_parse_decimal_from_json ==
    Apply("print::parse_decimal_from_json", print_parse_decimal_from_json(json_in))

Apply_parse_price == Apply("parse_price", parse_price(json_in))

Apply_print_parse_price == Apply("print::parse_price", print_parse_price(json_in))

Apply_parse_amounts == Apply("parse_amounts", parse_amounts(json_in))

Apply_parse_periodic_row == Apply("parse_periodic_row", parse_periodic_row(json_in))

Apply_incomestatement_parse_periodic_row ==
    Apply("incomestatement::parse_periodic_row",
          incomestatement_parse_periodic_row(json_in))

Apply_parse_periodic_row_value ==
    Apply("parse_periodic_row_value", parse_periodic_row_value(json_in))

Apply_balance_report == Apply("balance_report", balance_report_of_json(json_in))

Apply_parse_incomestatement_report ==
    Apply("parse_incomestatement_report", parse_incomestatement_report(json_in))

Apply_parse_cashflow_report ==
    Apply("parse_cashflow_report", parse_cashflow_report(json_in))

Apply_parse_print_output == Apply("parse_print_output", parse_print_output(json_in))

\* seeded fault: parse_amounts appends to a buffer that outlives the call, so
\* a second call returns the amounts of the first one in front of its own
parser_call_keeping_amounts(name, value) ==
    CASE name = "parse_decimal_from_json" -> parse_decimal_from_json(value)
      [] name = "print::parse_decimal_from_json" -> print_parse_decimal_from_json(value)
      [] name = "parse_price" -> parse_price(value)
      [] name = "print::parse_price" -> print_parse_price(value)
      [] name = "parse_amounts" ->
            IF IsOk(parsed) /\ IsOk(parse_amounts(value))
            THEN Ok(parsed.v \o parse_amounts(value).v)
            ELSE parse_amounts(value)
      [] name = "parse_periodic_row" -> parse_periodic_row(value)
      [] name = "incomestatement::parse_periodic_row" ->
            incomestatement_parse_periodic_row(value)
      [] name = "parse_periodic_row_value" -> parse_periodic_row_value(value)
      [] name = "balance_report" -> balance_report_of_json(value)
      [] name = "parse_incomestatement_report" -> parse_incomestatement_report(value)
      [] name = "parse_cashflow_report" -> parse_cashflow_report(value)
      [] OTHER -> parse_print_output(value)

\* a call of the parser of that name: every parser is a free function of the
\* value it is handed (fn parse_*(json: &serde_json::Value) -> Result<..>),
\* with no static, no cache, no clock and no map whose order it iterates
parser_call(name, value) ==
    CASE name = "parse_decimal_from_json" -> parse_decimal_from_json(value)
      [] name = "print::parse_decimal_from_json" -> print_parse_decimal_from_json(value)
      [] name = "parse_price" -> parse_price(value)
      [] name = "print::parse_price" -> print_parse_price(value)
      [] name = "parse_amounts" -> parse_amounts(value)
      [] name = "parse_periodic_row" -> parse_periodic_row(value)
      [] name = "incomestatement::parse_periodic_row" ->
            incomestatement_parse_periodic_row(value)
      [] name = "parse_periodic_row_value" -> parse_periodic_row_value(value)
      [] name = "balance_report" -> balance_report_of_json(value)
      [] name = "parse_incomestatement_report" -> parse_incomestatement_report(value)
      [] name = "parse_cashflow_report" -> parse_cashflow_report(value)
      [] OTHER -> parse_print_output(value)

\* the same parser is called a second time on the same, unchanged value
Reparse ==
    /\ parser # "none"
    /\ parsed_again = None
    /\ parsed_again' = Some(parser_call(parser, json_in))
    /\ UNCHANGED <<json_in, parser, parsed, run_vars, build_vars, app_vars>>

NextParse ==
    \/ Reparse
    \/ Apply_parse_decimal_from_json
    \/ Apply_print_parse_decimal_from_json
    \/ Apply_parse_price
    \/ Apply_print_parse_price
    \/ Apply_parse_amounts
    \/ Apply_parse_periodic_row
    \/ Apply_incomestatement_parse_periodic_row
    \/ Apply_parse_periodic_row_value
    \/ Apply_balance_report
    \/ Apply_parse_incomestatement_report
    \/ Apply_parse_cashflow_report
    \/ Apply_parse_print_output

SpecParse == InitParse /\ [][NextParse]_vars

(***************************************************************************)
(* Spec: one call of a report function.  The function builds its Command,  *)
(* runs it to completion, and reads the outcome.                           *)
(***************************************************************************)
Init ==
    /\ json_in = JNull
    /\ parser = "none"
    /\ parsed = None
    /\ parsed_again = None
    /\ Idle
    /\ Unbuilt
    /\ AppIdle

\* the call and the Command the function builds for it, up to cmd.output()
Call(k, path, file, opts) ==
    [kind |-> k, hledger_path |-> path, journal_file |-> file, options |-> opts]

Command(k, path, file, opts) ==
    [program |-> command_program(k, path), args |-> command_args(k, file, opts)]

get_accounts ==
    /\ pc = "idle"
    /\ \E path \in PathInputs, file \in JournalInputs, opts \in OptionsInputs["accounts"] :
        /\ call' = Call("accounts", path, file, opts)
        /\ cmd' = Command("accounts", path, file, opts)
    /\ pc' = "built"
    /\ UNCHANGED <<output, result, parse_vars, build_vars, app_vars>>

get_balance ==
    /\ pc = "idle"
    /\ \E path \in PathInputs, file \in JournalInputs, opts \in OptionsInputs["balance"] :
        /\ call' = Call("balance", path, file, opts)
        /\ cmd' = Command("balance", path, file, opts)
    /\ pc' = "built"
    /\ UNCHANGED <<output, result, parse_vars, build_vars, app_vars>>

get_incomestatement ==
    /\ pc = "idle"
    /\ \E path \in PathInputs, file \in JournalInputs,
          opts \in OptionsInputs["incomestatement"] :
        /\ call' = Call("incomestatement", path, file, opts)
        /\ cmd' = Command("incomestatement", path, file, opts)
    /\ pc' = "built"
    /\ UNCHANGED <<output, result, parse_vars, build_vars, app_vars>>

\* no caller of get_cashflow holds a binary path
get_cashflow ==
    /\ pc = "idle"
    /\ \E file \in JournalInputs, opts \in OptionsInputs["cashflow"] :
        /\ call' = Call("cashflow", None, file, opts)
        /\ cmd' = Command("cashflow", None, file, opts)
    /\ pc' = "built"
    /\ UNCHANGED <<output, result, parse_vars, build_vars, app_vars>>

get_print ==
    /\ pc = "idle"
    /\ \E path \in PathInputs, file \in JournalInputs, opts \in OptionsInputs["print"] :
        /\ call' = Call("print", path, file, opts)
        /\ cmd' = Command("print", path, file, opts)
    /\ pc' = "built"
    /\ UNCHANGED <<output, result, parse_vars, build_vars, app_vars>>

\* cmd.output() starts the process; the rest of the function reads the
\* Command and the arguments of the call no more
Spawn ==
    /\ pc = "built"
    /\ pc' = "running"
    /\ call' = [kind |-> call.kind]
    /\ cmd' = None
    /\ UNCHANGED <<output, result, parse_vars, build_vars, app_vars>>

\* the process ends (or could not be started) and the function returns
Exit ==
    /\ pc = "running"
    /\ \E out \in OutputInputs[call.kind] :
        /\ output' = out
        /\ result' = result_of_output(call.kind, out)
    /\ pc' = "returned"
    /\ UNCHANGED <<call, cmd, parse_vars, build_vars, app_vars>>

Next ==
    \/ get_accounts
    \/ get_balance
    \/ get_incomestatement
    \/ get_cashflow
    \/ get_print
    \/ Spawn
    \/ Exit

Spec == Init /\ [][Next]_vars

(***************************************************************************)
(* SpecBuild: an options struct made with X::new() and a chain of builder  *)
(* calls.  A builder named b sets the field b; the table gives the fields  *)
(* it clears besides.  Of the builders that touch no mode field, empty and *)
(* average stand for all.                                                  *)
(***************************************************************************)
\* most builder calls chained on one new()
MaxCalls == 3

Periods == {"daily", "weekly", "monthly", "quarterly", "yearly"}

\* the boolean fields of the three structs the builders write
builder_fields ==
    [k \in {"balance", "incomestatement", "cashflow"} |->
        Periods \cup {"cumulative", "historical", "tree", "flat", "empty", "average"}
        \cup (IF k = "balance" THEN {} ELSE {"change", "valuechange", "gain"})
        \cup (IF k = "cashflow" THEN {"sum", "budget"} ELSE {})]

\* BalanceOptions::new(): Self::default()
BalanceOptions_new == [f \in builder_fields["balance"] |-> FALSE]

\* IncomeStatementOptions::new(): Self::default()
IncomeStatementOptions_new == [f \in builder_fields["incomestatement"] |-> FALSE]

\* CashflowOptions::new(): sum, change and flat true, the rest Default
CashflowOptions_new ==
    [f \in builder_fields["cashflow"] |-> f \in {"sum", "change", "flat"}]

\* seeded fault: BalanceOptions::tree leaves flat as it is
BalanceOptions_builders_tree_keeps_flat ==
    [b \in Periods \cup {"historical", "cumulative", "tree", "flat", "empty", "average"} |->
        IF b = "flat" THEN {"tree"} ELSE {}]

\* BalanceOptions: only tree and flat clear a field
BalanceOptions_builders ==
    [b \in Periods \cup {"historical", "cumulative", "tree", "flat", "empty", "average"} |->
        CASE b = "tree" -> {"flat"}
          [] b = "flat" -> {"tree"}
          [] OTHER -> {}]

\* IncomeStatementOptions: only tree and flat clear a field
IncomeStatementOptions_builders ==
    [b \in Periods \cup {"historical", "cumulative", "change", "tree", "flat",
                        "empty", "average", "valuechange", "gain"} |->
        CASE b = "tree" -> {"flat"}
          [] b = "flat" -> {"tree"}
          [] OTHER -> {}]

\* seeded fault: CashflowOptions::gain leaves valuechange as it is
CashflowOptions_builders_gain_keeps_valuechange ==
    [b \in Periods \cup {"valuechange", "gain", "budget", "cumulative", "historical",
                        "tree", "empty", "average"} |->
        CASE b = "valuechange" -> {"sum", "gain", "budget"}
          [] b = "gain" -> {"sum", "budget"}
          [] b = "budget" -> {"sum", "valuechange", "gain"}
          [] b = "cumulative" -> {"change", "historical"}
          [] b = "historical" -> {"change", "cumulative"}
          [] b = "tree" -> {"flat"}
          [] b \in Periods -> Periods \ {b}
          [] OTHER -> {}]

\* CashflowOptions: every mode builder clears the other fields of its axis;
\* there is no builder named sum, change or flat
CashflowOptions_builders ==
    [b \in Periods \cup {"valuechange", "gain", "budget", "cumulative", "historical",
                        "tree", "empty", "average"} |->
        CASE b = "valuechange" -> {"sum", "gain", "budget"}
          [] b = "gain" -> {"sum", "valuechange", "budget"}
          [] b = "budget" -> {"sum", "valuechange", "gain"}
          [] b = "cumulative" -> {"change", "historical"}
          [] b = "historical" -> {"change", "cumulative"}
          [] b = "tree" -> {"flat"}
          [] b \in Periods -> Periods \ {b}
          [] OTHER -> {}]

\* pub fn b(mut self) -> Self { self.b = true; self.c = false; ..; self }
builder(options, b, clears) ==
    [f \in DOMAIN options |->
        IF f = b THEN TRUE ELSE IF f \in clears THEN FALSE ELSE options[f]]

Built(k, options, calls) == [kind |-> k, options |-> options, calls |-> calls]

InitBuild ==
    /\ json_in = JNull
    /\ parser = "none"
    /\ parsed = None
    /\ parsed_again = None
    /\ Idle
    /\ Unbuilt
    /\ AppIdle

New(k, options) ==
    /\ built = None
    /\ built' = Built(k, options, <<>>)
    /\ UNCHANGED <<parse_vars, run_vars, app_vars>>

\* one more call chained: X::new()...b()
Chain(k, builders) ==
    /\ built # None
    /\ built.kind = k
    /\ Len(built.calls) < MaxCalls
    /\ \E b \in DOMAIN builders :
           built' = Built(k, builder(built.options, b, builders[b]),
                          Append(built.calls, b))
    /\ UNCHANGED <<parse_vars, run_vars, app_vars>>

BalanceOptions_new_call == New("balance", BalanceOptions_new)

IncomeStatementOptions_new_call == New("incomestatement", IncomeStatementOptions_new)

CashflowOptions_new_call == New("cashflow", CashflowOptions_new)

BalanceOptions_builder_call == Chain("balance", BalanceOptions_builders)

IncomeStatementOptions_builder_call ==
    Chain("incomestatement", IncomeStatementOptions_builders)

CashflowOptions_builder_call == Chain("cashflow", CashflowOptions_builders)

NextBuild ==
    \/ BalanceOptions_new_call
    \/ IncomeStatementOptions_new_call
    \/ CashflowOptions_new_call
    \/ BalanceOptions_builder_call
    \/ IncomeStatementOptions_builder_call
    \/ CashflowOptions_builder_call

SpecBuild == InitBuild /\ [][NextBuild]_vars

(***************************************************************************)
(* SpecApp: the tauri commands of the application, run by threads that    *)
(* share AppState.  A report command takes the guard of                    *)
(* state.hledger_path in its first statement and keeps it in a local until *)
(* the function ends, that is, across the call into the library.           *)
(***************************************************************************)
\* the report commands of generate_handler!
ReportCommands ==
    {"get_accounts", "get_balance", "get_balancesheet", "get_incomestatement",
     "get_print"}

\* the paths a frontend sets
SetPathInputs == {"/opt/bin/hledger", "/usr/bin/hledger"}

InitApp ==
    /\ json_in = JNull
    /\ parser = "none"
    /\ parsed = None
    /\ parsed_again = None
    /\ Idle
    /\ Unbuilt
    /\ AppIdle

\* a thread between two commands
AtRest(t) == threads[t].pc \in {"idle", "returned"}

\* let hledger_path = state.hledger_path.lock().unwrap();
\* let path_ref = hledger_path.as_ref().map(|s| s.as_str());
report_command_lock(t, command) ==
    /\ AtRest(t)
    /\ mutex = None
    /\ mutex' = Some(t)
    /\ threads' = [threads EXCEPT ![t] =
                      [pc |-> "locked", command |-> command, path_ref |-> hledger_path]]
    /\ UNCHANGED <<hledger_path, parse_vars, run_vars, build_vars>>

\* hledger_lib::get_*(path_ref, file_ref, &options): the library function
\* starts the process and waits for it
report_command_call(t) ==
    /\ threads[t].pc = "locked"
    /\ threads' = [threads EXCEPT ![t].pc = "running"]
    /\ UNCHANGED <<mutex, hledger_path, parse_vars, run_vars, build_vars>>

\* the process has ended, the library function returns, the command maps
\* its result and returns: the guard is dropped at the end of the function
report_command_return(t) ==
    /\ threads[t].pc = "running"
    /\ mutex' = None
    /\ threads' = [threads EXCEPT ![t].pc = "returned"]
    /\ UNCHANGED <<hledger_path, parse_vars, run_vars, build_vars>>

\* set_hledger_path: lock, *hledger_path = Some(path), Ok(()): the guard is
\* taken and dropped within the command
set_hledger_path(t, path) ==
    /\ AtRest(t)
    /\ mutex = None
    /\ hledger_path' = Some(path)
    /\ threads' = [threads EXCEPT ![t] = [pc |-> "returned", command |-> "set_hledger_path"]]
    /\ UNCHANGED <<mutex, parse_vars, run_vars, build_vars>>

\* get_hledger_path: lock, Ok(hledger_path.clone())
get_hledger_path(t) ==
    /\ AtRest(t)
    /\ mutex = None
    /\ threads' = [threads EXCEPT ![t] =
                      [pc |-> "returned", command |-> "get_hledger_path",
                       path_ref |-> hledger_path]]
    /\ UNCHANGED <<mutex, hledger_path, parse_vars, run_vars, build_vars>>

NextApp ==
    \/ \E t \in Threads, command \in ReportCommands : report_command_lock(t, command)
    \/ \E t \in Threads : report_command_call(t)
    \/ \E t \in Threads : report_command_return(t)
    \/ \E t \in Threads, path \in SetPathInputs : set_hledger_path(t, path)
    \/ \E t \in Threads : get_hledger_path(t)

SpecApp == InitApp /\ [][NextApp]_vars

(***************************************************************************)
(* Properties of the parsers (SpecParse).                                  *)
(***************************************************************************)
IsParseError(r) == r.tag = "Err" /\ r.e = "ParseError"

DecimalCodecs == {"parse_decimal_from_json", "print::parse_decimal_from_json"}

\* a JSON integer that fits i64, and a JSON integer that is not negative
IsIntegerMantissa(v) == v.t = "num" /\ v.k \in {"PosInt", "NegInt"} /\ (v.k = "PosInt" => v.top = 0)

IsPlaceCount(v) == v.t = "num" /\ v.k = "PosInt"

\* C8, as stated: an object with an integer mantissa m and a non-negative
\* place count p parses to exactly m x 10^-p (the scale of the result is p
\* itself, at its full width), with no panic; a missing place count is 0.
C8_StructuredExact ==
    (/\ parser = "parse_decimal_from_json"
     /\ is_object(json_in)
     /\ has(json_in, "decimalMantissa")
     /\ IsIntegerMantissa(json_in.o.decimalMantissa)
     /\ has(json_in, "decimalPlaces") => IsPlaceCount(json_in.o.decimalPlaces))
    => /\ IsOk(parsed)
       /\ parsed.v.m = as_i64(json_in.o.decimalMantissa).v
       /\ IF has(json_in, "decimalPlaces")
          THEN as_u64(json_in.o.decimalPlaces).v = [top |-> 0, hi |-> 0, lo |-> parsed.v.s]
          ELSE parsed.v.s = 0

\* the strings <Decimal as FromStr> reads: an optional sign, then digits
\* with at most one point, at least one digit, '_' only after a digit
Unsigned(s) == IF s # <<>> /\ s[1] \in {"-", "+"} THEN Tail(s) ELSE s

IsDecimalString(s) ==
    /\ \A i \in DOMAIN Unsigned(s) : Unsigned(s)[i] \in DigitChars \cup {".", "_"}
    /\ Cardinality({i \in DOMAIN Unsigned(s) : Unsigned(s)[i] = "."}) <= 1
    /\ \E i \in DOMAIN Unsigned(s) : Unsigned(s)[i] \in DigitChars
    /\ \A i \in DOMAIN Unsigned(s) :
           Unsigned(s)[i] = "_" => \E j \in 1..(i - 1) : Unsigned(s)[j] \in DigitChars

\* null, boolean, array, an object without an integer decimalMantissa, a
\* string that is no decimal
IsRejectedDecimal(v) ==
    \/ v.t \in {"null", "bool", "arr"}
    \/ /\ v.t = "obj"
       /\ ~(has(v, "decimalMantissa") /\ v.o.decimalMantissa.t = "num"
            /\ v.o.decimalMantissa.k \in {"PosInt", "NegInt"})
    \/ v.t = "str" /\ ~IsDecimalString(v.s)

\* C9: both decimal codecs (balance.rs and print.rs) answer ParseError to
\* every JSON value that is neither a mantissa/places object, a number, nor
\* a parseable decimal string.
C9_DecimalRejection ==
    (parser \in DecimalCodecs /\ IsRejectedDecimal(json_in)) => IsParseError(parsed)

\* the balance codec has rejected a string with two points
C9_Witness ==
    /\ parser = "parse_decimal_from_json"
    /\ json_in = JStr(<<"1", ".", "2", ".", "3">>)
    /\ IsParseError(parsed)

\* the object-valued candidate parse_price uses, if any
PriceCandidate(v) ==
    IF has(v, "contents") /\ is_object(v.o.contents)
    THEN Some(v.o.contents)
    ELSE IF has(v, "priceAmount") /\ is_object(v.o.priceAmount)
    THEN Some(v.o.priceAmount)
    ELSE None

\* C10: the price of a balance amount is read from an object-valued
\* contents when there is one (priceAmount present or not), else from an
\* object-valued priceAmount, and else there is no price.
C10_PriceOrder ==
    parser = "parse_price" =>
        IF PriceCandidate(json_in).some
        THEN parsed = price_of_amount_obj(PriceCandidate(json_in).v)
        ELSE parsed = Ok(None)

\* contents and priceAmount both carry an amount, in different commodities:
\* the price is the one of contents
C10_Witness ==
    /\ parser = "parse_price"
    /\ has(json_in, "contents") /\ has(json_in, "priceAmount")
    /\ is_object(json_in.o.contents) /\ is_object(json_in.o.priceAmount)
    /\ str_or(json_in.o.contents, "acommodity", <<>>) = Str_eur
    /\ str_or(json_in.o.priceAmount, "acommodity", <<>>) = Str_usd
    /\ IsOk(parsed) /\ parsed.v.some /\ parsed.v.v.commodity = Str_eur

\* the structured form with a place count of 29: Decimal::new has panicked
C8_Witness ==
    /\ parser = "parse_decimal_from_json"
    /\ json_in = DecObj(JNat(10000), JNat(MAX_SCALE + 1))
    /\ parsed.tag = "Panic"

\* the structured form with a place count of 2^32 + 2: the scale read is 2
C8_TruncatedScale ==
    /\ parser = "parse_decimal_from_json"
    /\ json_in = DecObj(JNat(10000), JPos(0, 1, 2))
    /\ parsed = Ok(Dec(I64(FALSE, 0, 10000), 2))

(***************************************************************************)
(* Properties of the report functions (Spec).  A call that has built its   *)
(* Command (pc = "built") holds its arguments in call and the Command in   *)
(* cmd; a call that has returned holds the process's outcome in output.    *)
(***************************************************************************)
\* where the subcommand stands: after the -f pair, if there is one
SubcommandAt == IF call.journal_file.some THEN 3 ELSE 1

\* the argument list is [-f file] subcommand [--output-format json]
\* [flags...] [queries...], the output format being there when json is true
HasShape(args, json) ==
    /\ Len(args) >= SubcommandAt + (IF json THEN 2 ELSE 0) + Len(call.options.queries)
    /\ call.journal_file.some =>
           args[1] = W("-f") /\ args[2] = W(call.journal_file.v)
    /\ args[SubcommandAt] = W(call.kind)
    /\ json => /\ args[SubcommandAt + 1] = W("--output-format")
               /\ args[SubcommandAt + 2] = W("json")
    /\ \A i \in (SubcommandAt + 1)..(Len(args) - Len(call.options.queries)) :
           /\ args[i].w \notin {"-f", call.kind}
           /\ args[i].w = "--output-format" => json /\ i = SubcommandAt + 1
    /\ \A i \in 1..Len(call.options.queries) :
           args[Len(args) - Len(call.options.queries) + i] = W(call.options.queries[i])

C3_QueriesLast ==
    pc = "built" =>
        /\ Len(cmd.args) >= Len(call.options.queries)
        /\ \A i \in 1..Len(call.options.queries) :
               cmd.args[Len(cmd.args) - Len(call.options.queries) + i]
                   = W(call.options.queries[i])
        /\ SubSeq(cmd.args, 1, Len(cmd.args) - Len(call.options.queries))
               = command_args(call.kind, call.journal_file,
                              [call.options EXCEPT !.queries = <<>>])

\* a balance call with two different patterns and a generated flag
C3_Witness ==
    /\ pc = "built"
    /\ call.kind = "balance"
    /\ call.options.queries = <<"expenses", "--tree">>
    /\ call.options.historical
    /\ cmd.args[Len(cmd.args) - 1] = W("expenses")
    /\ cmd.args[Len(cmd.args)] = W("--tree")

\* the flags of each axis
CalculationFlags == {"--valuechange", "--gain", "--budget", "--budget=", "--count"}

AccumulationFlags == {"--change", "--cumulative", "--historical"}

LayoutFlags == {"--flat", "--tree"}

IntervalFlags == {"--daily", "--weekly", "--monthly", "--quarterly", "--yearly"}

Axes == {CalculationFlags, AccumulationFlags, LayoutFlags, IntervalFlags}

\* the generated arguments of an axis: those before the query patterns
Generated(args, axis) ==
    {i \in 1..(Len(args) - Len(call.options.queries)) : args[i].w \in axis}

\* C4, as stated: whatever mode booleans are set, at most one flag of each
\* axis (calculation, accumulation, layout, interval) is in the argument list.
C4_NoConflictingFlags ==
    pc = "built" => \A axis \in Axes : Cardinality(Generated(cmd.args, axis)) <= 1

\* a balance call with valuechange and gain set carries both flags
C4_Witness ==
    /\ pc = "built"
    /\ call.kind = "balance"
    /\ call.options.valuechange /\ call.options.gain
    /\ \E i, j \in DOMAIN cmd.args :
           cmd.args[i] = W("--valuechange") /\ cmd.args[j] = W("--gain")

\* the process ran and ended, and the function has returned
Exited == pc = "returned" /\ output.launch = "Ok"

\* the text of captured bytes: every valid byte itself, every other U+FFFD
IsTextOf(text, bytes) ==
    /\ Len(text) = Len(bytes)
    /\ \A i \in DOMAIN bytes : text[i] = IF bytes[i].utf8 THEN bytes[i] ELSE Replacement

\* C5: when the process exits unsuccessfully (a nonzero code, or no code at
\* all), the call returns CommandFailed with a code that is not 0 (the exit
\* code, or -1 when there is none) and the text of the captured stderr; it
\* neither panics nor returns a report.
C5_CommandFailed ==
    (Exited /\ output.status.code # Some(0)) =>
        /\ result.tag = "Err"
        /\ result.e = "CommandFailed"
        /\ result.code # 0
        /\ output.status.code.some => result.code = output.status.code.v
        /\ ~output.status.code.some => result.code = -1
        /\ IsTextOf(result.stderr, output.stderr)

\* a process ended by a signal, with text on stderr and a report on stdout
C5_Witness ==
    /\ Exited
    /\ call.kind = "balance"
    /\ ~output.status.code.some
    /\ output.stderr = <<Byte("e"), Byte("r"), Byte("r")>>
    /\ output.stdout = <<Doc(JArr(<<JArr(<<>>), JArr(<<>>)>>), TRUE)>>
    /\ result = CommandFailed(-1, <<Byte("e"), Byte("r"), Byte("r")>>)

\* C6, as stated: for every report kind, a successful exit whose stdout is
\* not valid UTF-8 fails with InvalidUtf8.
C6_InvalidUtf8 ==
    (/\ Exited
     /\ output.status.code = Some(0)
     /\ \E i \in DOMAIN output.stdout : ~output.stdout[i].utf8)
    => result = InvalidUtf8

\* get_cashflow has returned a report read from a stdout that is not valid
\* UTF-8
C6_Witness ==
    /\ Exited
    /\ call.kind = "cashflow"
    /\ output.status.code = Some(0)
    /\ \E i \in DOMAIN output.stdout : ~output.stdout[i].utf8
    /\ IsOk(result)

\* C7, as stated: the program of the Command is the path the caller holds
\* when there is one, and "hledger" otherwise.
C7_BinaryPath ==
    pc = "built" =>
        cmd.program = IF call.hledger_path.some THEN call.hledger_path.v ELSE "hledger"

\* a balance call made with a path runs "hledger"
C7_Witness ==
    /\ pc = "built"
    /\ call.kind = "balance"
    /\ call.hledger_path = Some("/opt/bin/hledger")
    /\ cmd.program = "hledger"

\* an amount object with a commodity and a quantity the decimal codec reads
IsValidAmount(v) ==
    /\ is_object(v)
    /\ has(v, "acommodity") /\ as_str(v.o.acommodity).some
    /\ has(v, "aquantity") /\ IsOk(parse_decimal_from_json(v.o.aquantity))

\* C11, as stated: amounts of valid commodity and quantity parse whatever
\* their aprice is; the price field yields a price or no price, never a
\* failure.
C11_PriceNeverFails ==
    (/\ parser = "parse_amounts"
     /\ is_array(json_in)
     /\ \A i \in DOMAIN json_in.a : IsValidAmount(json_in.a[i]))
    => /\ IsOk(parsed)
       /\ Len(parsed.v) = Len(json_in.a)

\* a valid amount whose price envelope wraps an amount of null quantity:
\* parse_amounts has failed with the price's ParseError
C11_Witness ==
    /\ parser = "parse_amounts"
    /\ is_array(json_in) /\ Len(json_in.a) = 1
    /\ IsValidAmount(json_in.a[1])
    /\ has(json_in.a[1], "aprice")
    /\ has(json_in.a[1].o.aprice, "contents")
    /\ is_object(json_in.a[1].o.aprice.o.contents)
    /\ get(json_in.a[1].o.aprice.o.contents, "aquantity") = Some(JNull)
    /\ IsParseError(parsed)

\* C12, as stated: for every aprice value the price print.rs reads equals
\* the price balance.rs reads; a legacy priceAmount object is a price in
\* print reports too.
C12_SamePrice == parser = "print::parse_price" => parsed = parse_price(json_in)

\* print.rs has read no price from a legacy priceAmount object that
\* balance.rs reads a price from
C12_Witness ==
    /\ parser = "print::parse_price"
    /\ is_object(json_in)
    /\ ~has(json_in, "contents")
    /\ has(json_in, "priceAmount") /\ is_object(json_in.o.priceAmount)
    /\ parsed = Ok(None)
    /\ IsOk(parse_price(json_in)) /\ parse_price(json_in).v.some

\* a quantity of a JSON type the decimal codec has no reading for
IsMistypedQuantity(v) == v.t \in {"null", "bool", "arr"}

\* aquantity of the wrong type: the amounts still parse
QuantityMismatchDefaults ==
    (/\ parser = "parse_amounts"
     /\ is_array(json_in)
     /\ \A i \in DOMAIN json_in.a :
            /\ is_object(json_in.a[i])
            /\ ~has(json_in.a[i], "aprice")
            /\ has(json_in.a[i], "aquantity")
            /\ \/ IsMistypedQuantity(json_in.a[i].o.aquantity)
               \/ IsOk(parse_decimal_from_json(json_in.a[i].o.aquantity)))
    => IsOk(parsed) /\ Len(parsed.v) = Len(json_in.a)

\* an account entry that is not an array: the Simple report still parses
AccountMismatchDefaults ==
    (/\ parser = "balance_report"
     /\ is_array(json_in) /\ Len(json_in.a) = 2
     /\ is_array(json_in.a[1])
     /\ \A i \in DOMAIN json_in.a[1].a :
            \/ ~is_array(json_in.a[1].a[i])
            \/ IsOk(parse_balance_account(json_in.a[1].a[i]))
     /\ IsOk(parse_amounts(json_in.a[2])))
    => IsOk(parsed) /\ parsed.v.variant = "Simple"

\* a periodic row that is not an object: the Periodic report still parses
RowMismatchDefaults ==
    (/\ parser = "balance_report"
     /\ is_object(json_in) /\ has(json_in, "prDates") /\ has(json_in, "prRows")
     /\ ~has(json_in, "prTotals")
     /\ is_array(json_in.o.prRows)
     /\ \A i \in DOMAIN json_in.o.prRows.a :
            \/ ~is_object(json_in.o.prRows.a[i])
            \/ IsOk(parse_periodic_row(json_in.o.prRows.a[i])))
    => IsOk(parsed) /\ parsed.v.variant = "Periodic"

\* a print report of one transaction, one posting and one amount of the
\* given astyle
StyledDoc(style) ==
    JArr(<<JObj([tindex |-> JNat(1), tdate |-> JStr(Date_1),
                 tdescription |-> JStr(Str_acct),
                 ttags |-> JArr(<<JArr(<<JStr(<<"k">>), JStr(<<"v">>)>>), JNull>>),
                 tsourcepos |-> JArr(<<JObj([sourceName |-> JStr(<<"j">>),
                                             sourceLine |-> JNat(1)]), JNull>>),
                 tpostings |-> JArr(<<JObj([paccount |-> JStr(Str_acct),
                     pamount |-> JArr(<<JObj([acommodity |-> JStr(Str_usd),
                                              aquantity |-> JNat(5),
                                              astyle |-> style])>>)])>>)])>>)

\* astyle null: the print report still parses
StyleMismatchDefaults ==
    (parser = "parse_print_output" /\ json_in = StyledDoc(JNull)) => IsOk(parsed)

\* C13, as stated: in a document of an accepted top-level shape, a field of
\* the wrong JSON type (aquantity a boolean, an account entry or a periodic
\* row that is not an array/object, astyle null) takes a permissive default
\* and the parse succeeds.
C13_TypeMismatchDefaults ==
    /\ QuantityMismatchDefaults
    /\ AccountMismatchDefaults
    /\ RowMismatchDefaults
    /\ StyleMismatchDefaults

\* a Simple document whose only account entry is null has failed to parse
C13_Witness ==
    /\ parser = "balance_report"
    /\ is_array(json_in) /\ Len(json_in.a) = 2
    /\ json_in.a[1] = JArr(<<JNull>>)
    /\ IsOk(parse_amounts(json_in.a[2]))
    /\ parsed = ParseError("Account should be an array")

\* every row that carries period amounts has one list of amounts per date
RowsAligned(rows, dates) ==
    \A i \in DOMAIN rows :
        Len(rows[i].amounts) > 0 => Len(rows[i].amounts) = Len(dates)

\* C14, as stated: in every Periodic balance report and every subreport
\* the parsers return, each row that carries per-period amounts has as many
\* of them as the enclosing report has dates.
C14_AmountsPerDate ==
    /\ (parser = "balance_report" /\ IsOk(parsed) /\ parsed.v.variant = "Periodic")
           => RowsAligned(parsed.v.rows, parsed.v.dates)
    /\ (parser = "parse_incomestatement_report" /\ IsOk(parsed))
           => \A s \in DOMAIN parsed.v.subreports :
                  RowsAligned(parsed.v.subreports[s].rows, parsed.v.subreports[s].dates)
    /\ (parser = "parse_cashflow_report" /\ IsOk(parsed))
           => \A s \in DOMAIN parsed.v.subreports :
                  RowsAligned(parsed.v.subreports[s].data.rows,
                              parsed.v.subreports[s].data.dates)

\* a Periodic balance report of one date with a row of two period amounts
C14_Witness ==
    /\ parser = "balance_report"
    /\ IsOk(parsed) /\ parsed.v.variant = "Periodic"
    /\ Len(parsed.v.dates) = 1
    /\ Len(parsed.v.rows) = 1
    /\ Len(parsed.v.rows[1].amounts) = 2

\* an income statement subreport of one date with a row of two period amounts
C14_SubreportMisaligned ==
    /\ parser = "parse_incomestatement_report"
    /\ IsOk(parsed)
    /\ \E s \in DOMAIN parsed.v.subreports :
           /\ Len(parsed.v.subreports[s].dates) = 1
           /\ Len(parsed.v.subreports[s].rows[1].amounts) = 2

\* a tagged date: an object whose contents is a string
IsTaggedDate(v) == is_object(v) /\ has(v, "contents") /\ as_str(v.o.contents).some

\* a well-formed date entry: an array of exactly two tagged dates
IsDatePair(v) == is_array(v) /\ Len(v.a) = 2 /\ IsTaggedDate(v.a[1]) /\ IsTaggedDate(v.a[2])

PeriodDatesOf(pairs) ==
    [i \in DOMAIN pairs |->
        [start |-> pairs[i].a[1].o.contents.s, end |-> pairs[i].a[2].o.contents.s]]

\* the well-formed pairs of a dates value, in their order
WellFormedDates(dates_json) ==
    IF is_array(dates_json) THEN PeriodDatesOf(SelectSeq(dates_json.a, IsDatePair)) ELSE <<>>

\* C15, as stated: the dates of a report are exactly the well-formed date
\* pairs of its input, in input order; every malformed entry (not an array,
\* not two elements, an element that is no tagged date) is passed over, so
\* no PeriodDate has a defaulted start or end.
C15_DatesAreWellFormedPairs ==
    /\ (parser = "balance_report" /\ IsOk(parsed) /\ parsed.v.variant = "Periodic")
           => parsed.v.dates = WellFormedDates(json_in.o.prDates)
    /\ (parser \in {"parse_incomestatement_report", "parse_cashflow_report"} /\ IsOk(parsed))
           => parsed.v.dates = WellFormedDates(json_in.o.cbrDates)

\* a pair whose first element is a bare string has become a PeriodDate with
\* an empty start
C15_Witness ==
    /\ parser = "balance_report"
    /\ IsOk(parsed) /\ parsed.v.variant = "Periodic"
    /\ json_in.o.prDates = JArr(<<JArr(<<JStr(Date_1), TaggedDate(Date_2)>>)>>)
    /\ parsed.v.dates = <<[start |-> <<>>, end |-> Date_2]>>

CompoundParsers == {"parse_incomestatement_report", "parse_cashflow_report"}

\* the entries of cbrSubreports the parsers read: arrays of three or more
IsReadEntry(v) == is_array(v) /\ Len(v.a) >= 3

ReadEntries(value) ==
    IF is_array(value.o.cbrSubreports)
    THEN SelectSeq(value.o.cbrSubreports.a, IsReadEntry)
    ELSE <<>>

\* C16, as stated: the increases_total of every subreport the income
\* statement and cashflow parsers return is the boolean of its entry's third
\* element, and is false only when that element is the JSON value false.
C16_IncreasesTotalPassThrough ==
    (parser \in CompoundParsers /\ IsOk(parsed)) =>
        /\ Len(parsed.v.subreports) = Len(ReadEntries(json_in))
        /\ \A i \in DOMAIN parsed.v.subreports :
               parsed.v.subreports[i].increases_total
                   = (ReadEntries(json_in)[i].a[3] # JBool(FALSE))

\* an income statement entry whose third element is null has become a
\* subreport that does not increase the total
C16_Witness ==
    /\ parser = "parse_incomestatement_report"
    /\ IsOk(parsed)
    /\ Len(parsed.v.subreports) = 1
    /\ ReadEntries(json_in) = <<JArr(<<JStr(<<"X">>), Sub_ok, JNull>>)>>
    /\ parsed.v.subreports[1].increases_total = FALSE

\* the cashflow parser reads the same entry as one that increases the total
C16_CashflowDefault ==
    /\ parser = "parse_cashflow_report"
    /\ IsOk(parsed)
    /\ ReadEntries(json_in) = <<JArr(<<JStr(<<"X">>), Sub_ok, JNull>>)>>
    /\ parsed.v.subreports[1].increases_total = TRUE

\* the report has no rows, or the call failed with the failure of totals
NoRowsOr(rows_empty, totals_result) ==
    \/ IsOk(parsed) /\ rows_empty
    \/ ~IsOk(totals_result) /\ parsed = totals_result

\* what the compound parser of the state makes of a totals row
TotalsRowOf(value) ==
    IF parser = "parse_incomestatement_report"
    THEN incomestatement_parse_periodic_row(value)
    ELSE parse_periodic_row_value(value)

\* a read subreport entry whose report object lacks prDates or prRows
LacksContainer(entry) ==
    /\ is_object(entry.a[2])
    /\ ~has(entry.a[2], "prDates") \/ ~has(entry.a[2], "prRows")

C17_MissingRows ==
    /\ parser = "balance_report"
    /\ json_in = JObj([prDates |-> Dates_one])
    /\ parsed = ParseError("Missing prRows in periodic balance")

\* a cashflow subreport with no prRows: a ParseError
C17_MissingSubreportRows ==
    /\ parser = "parse_cashflow_report"
    /\ is_object(json_in) /\ has(json_in, "cbrSubreports")
    /\ ReadEntries(json_in) = <<JArr(<<JStr(<<"N">>), Sub_no_rows, JBool(TRUE)>>)>>
    /\ parsed = ParseError("Missing prRows in periodic balance")

\* a transaction object with no tdate, or with a posting object with no
\* paccount
LacksRequiredField(t) ==
    /\ is_object(t)
    /\ \/ ~has(t, "tdate")
       \/ /\ has(t, "tpostings") /\ is_array(t.o.tpostings)
          /\ \E j \in DOMAIN t.o.tpostings.a :
                 /\ is_object(t.o.tpostings.a[j])
                 /\ ~has(t.o.tpostings.a[j], "paccount")

\* C18, as stated: a print document with a transaction that has no tdate,
\* or a posting that has no paccount, is rejected with ParseError; every
\* other absent field takes its default (status "Unmarked", empty text).
C18_RequiredFields ==
    (parser = "parse_print_output" /\ is_array(json_in)) =>
        /\ (\E i \in DOMAIN json_in.a : LacksRequiredField(json_in.a[i]))
               => IsParseError(parsed)
        /\ IsOk(parsed) =>
               \A i \in DOMAIN parsed.v :
                   /\ ~has(json_in.a[i], "tstatus")
                          => parsed.v[i].status = <<"Unmarked">>
                   /\ ~has(json_in.a[i], "tcode") => parsed.v[i].code = <<>>

\* a transaction object with no field at all has parsed, with an empty date
C18_Witness ==
    /\ parser = "parse_print_output"
    /\ json_in = JArr(<<EmptyObj>>)
    /\ IsOk(parsed)
    /\ parsed.v[1].date = <<>>
    /\ parsed.v[1].status = <<"Unmarked">>

\* a posting with no paccount has parsed, with an empty account
C18_PostingWithoutAccount ==
    /\ parser = "parse_print_output"
    /\ IsOk(parsed)
    /\ Len(parsed.v) = 1
    /\ Len(parsed.v[1].postings) = 1
    /\ ~has(json_in.a[1].o.tpostings.a[1], "paccount")
    /\ parsed.v[1].postings[1].account = <<>>
    /\ parsed.v[1].postings[1].posting_type = <<"RegularPosting">>

\* C19, as stated: the income statement and cashflow parsers return one
\* subreport per element of cbrSubreports, in input order, or fail with
\* ParseError; no element is dropped.
C19_NoPartialReport ==
    (/\ parser \in CompoundParsers
     /\ is_object(json_in) /\ has(json_in, "cbrDates") /\ has(json_in, "cbrSubreports")
     /\ is_array(json_in.o.cbrSubreports))
    => \/ IsParseError(parsed)
       \/ /\ IsOk(parsed)
          /\ Len(parsed.v.subreports) = Len(json_in.o.cbrSubreports.a)
          /\ \A i \in DOMAIN parsed.v.subreports :
                 /\ is_array(json_in.o.cbrSubreports.a[i])
                 /\ Len(json_in.o.cbrSubreports.a[i].a) = 3
                 /\ as_str(json_in.o.cbrSubreports.a[i].a[1])
                        = Some(parsed.v.subreports[i].name)

\* a two-element entry followed by a well-formed one: the report holds the
\* second alone
C19_Witness ==
    /\ parser = "parse_incomestatement_report"
    /\ is_object(json_in) /\ has(json_in, "cbrSubreports")
    /\ json_in.o.cbrSubreports
           = JArr(<<JArr(<<JStr(<<"R">>), Sub_ok>>),
                    JArr(<<JStr(<<"X">>), Sub_ok, JBool(FALSE)>>)>>)
    /\ IsOk(parsed)
    /\ Len(parsed.v.subreports) = 1
    /\ parsed.v.subreports[1].name = <<"X">>


C20_RejectedTwice ==
    /\ parsed_again # None
    /\ parser = "balance_report"
    /\ IsParseError(parsed)
    /\ IsParseError(parsed_again.v)

(***************************************************************************)
(* Properties of the accounts report (Spec), the builders (SpecBuild).     *)
(***************************************************************************)
\* the text from s to e is the content of one line of the text: it starts
\* and ends with a character that is not whitespace, holds no line feed, and
\* only blanks stand between it and the line feeds (or the ends of the
\* text) around it
IsLineContent(text, s, e) ==
    /\ s <= e
    /\ ~is_whitespace(text[s])
    /\ ~is_whitespace(text[e])
    /\ \A i \in s..e : text[i] # Byte("\n")
    /\ \E b \in 0..(s - 1) :
           /\ b = 0 \/ text[b] = Byte("\n")
           /\ \A i \in (b + 1)..(s - 1) : text[i] = Byte(" ")
    /\ \E f \in (e + 1)..(Len(text) + 1) :
           /\ f = Len(text) + 1 \/ text[f] = Byte("\n")
           /\ \A i \in (e + 1)..(f - 1) : text[i] = Byte(" ")

\* where the line contents of the text start
LineStarts(text) ==
    {s \in DOMAIN text : \E e \in DOMAIN text : IsLineContent(text, s, e)}

\* the list is the line contents of the text, each once, in their order
IsLinesOf(list, text) ==
    /\ Len(list) = Cardinality(LineStarts(text))
    /\ \A n \in DOMAIN list :
          \E s \in LineStarts(text) :
              /\ Cardinality({t \in LineStarts(text) : t < s}) = n - 1
              /\ \E e \in DOMAIN text :
                     IsLineContent(text, s, e) /\ list[n] = SubSeq(text, s, e)

C21_Trimmed ==
    /\ Exited
    /\ call.kind = "accounts"
    /\ output.stdout = <<Byte("\n"), Byte(" "), Byte("a")>>
    /\ result = Ok(<<<<Byte("a")>>>>)

\* an accounts call with a depth
C21_Depth ==
    /\ pc = "built"
    /\ call.kind = "accounts"
    /\ call.options.depth = Some(2)
    /\ \E i \in DOMAIN cmd.args : cmd.args[i] = WithValue("--depth=", 2)

\* the fields of S that are true
Set(options, S) == {f \in S : options[f]}

\* the builder of the axis S called last in the chain, if any was called
LastCalled(calls, S) ==
    IF \E i \in DOMAIN calls : calls[i] \in S
    THEN {calls[CHOOSE i \in DOMAIN calls :
                    calls[i] \in S /\ \A j \in (i + 1)..Len(calls) : calls[j] \notin S]}
    ELSE {}

\* the fields of the axis S that are true are the builder called last on
\* it, or, when none was called, what new() set
IsLastCalled(options, calls, S, new) ==
    Set(options, S) = IF LastCalled(calls, S) = {} THEN new ELSE LastCalled(calls, S)

\* C22: whatever builders are chained on CashflowOptions::new(), exactly one
\* of sum/valuechange/gain/budget is true, exactly one of
\* change/cumulative/historical, exactly one of flat/tree and at most one of
\* daily/weekly/monthly/quarterly/yearly: on each axis the field set is that
\* of the mode builder called last, or the default of new() when none was.
C22_CashflowModes ==
    (built # None /\ built.kind = "cashflow") =>
        /\ Cardinality(Set(built.options, {"sum", "valuechange", "gain", "budget"})) = 1
        /\ Cardinality(Set(built.options, {"change", "cumulative", "historical"})) = 1
        /\ Cardinality(Set(built.options, {"flat", "tree"})) = 1
        /\ Cardinality(Set(built.options, Periods)) <= 1
        /\ IsLastCalled(built.options, built.calls,
                        {"sum", "valuechange", "gain", "budget"}, {"sum"})
        /\ IsLastCalled(built.options, built.calls,
                        {"change", "cumulative", "historical"}, {"change"})
        /\ IsLastCalled(built.options, built.calls, {"flat", "tree"}, {"flat"})
        /\ IsLastCalled(built.options, built.calls, Periods, {})

\* CashflowOptions::new().valuechange().monthly().gain()
C22_Witness ==
    /\ built # None
    /\ built.kind = "cashflow"
    /\ built.calls = <<"valuechange", "monthly", "gain">>
    /\ built.options.gain
    /\ ~built.options.valuechange
    /\ ~built.options.sum
    /\ built.options.monthly

\* C23: whatever builders are chained on BalanceOptions::new() or
\* IncomeStatementOptions::new(), tree and flat are never both true, and of
\* the two the one whose builder was called last is the one that is true.
C23_TreeOrFlat ==
    (built # None /\ built.kind \in {"balance", "incomestatement"}) =>
        /\ ~(built.options.tree /\ built.options.flat)
        /\ IsLastCalled(built.options, built.calls, {"tree", "flat"}, {})

\* BalanceOptions::new().tree().monthly().flat()
C23_Witness ==
    /\ built # None
    /\ built.kind = "balance"
    /\ built.calls = <<"tree", "monthly", "flat">>
    /\ built.options.flat
    /\ ~built.options.tree

\* IncomeStatementOptions::new().flat().tree()
C23_IncomeStatement ==
    /\ built # None
    /\ built.kind = "incomestatement"
    /\ built.calls = <<"flat", "tree">>
    /\ built.options.tree
    /\ ~built.options.flat

(***************************************************************************)
(* Properties of the application's commands (SpecApp).                     *)
(***************************************************************************)
\* the thread is inside the round trip of its external process
InRoundTrip(t) == threads[t].pc = "running"

\* C24, as stated: report commands invoked at the same time are not
\* serialized: while one is inside the round trip of its external process it
\* holds no lock that another invocation, or a path update, has to wait for.
C24_NoLockAcrossProcess ==
    \A t \in Threads : InRoundTrip(t) => mutex = None

\* one get_balance waits for its process holding the guard while the other
\* thread, which has returned from a command before, can start none
C24_Witness ==
    /\ InRoundTrip(1)
    /\ threads[1].command = "get_balance"
    /\ mutex = Some(1)
    /\ threads[2].pc = "returned"
    /\ ~ENABLED (\E command \in ReportCommands : report_command_lock(2, command))
    /\ ~ENABLED (\E path \in SetPathInputs : set_hledger_path(2, path))

\* what the commands do instead: never are two of them inside their round
\* trips at the same time
C24_Serialized ==
    \A t, u \in Threads : (InRoundTrip(t) /\ InRoundTrip(u)) => t = u

(***************************************************************************)
(* More properties of the parsers (SpecParse).                             *)
(***************************************************************************)
RowParsers ==
    {"parse_periodic_row", "incomestatement::parse_periodic_row",
     "parse_periodic_row_value"}

\* the account of a row: its prrName when that is a string, "" otherwise
AccountOf(value) ==
    IF has(value, "prrName") /\ value.o.prrName.t = "str"
    THEN value.o.prrName.s
    ELSE <<>>

\* C25: the periodic-row parsers of balance.rs, incomestatement.rs and
\* cashflow.rs agree on every value: either all three return the same row,
\* whose account is the prrName string, or "" when prrName is an empty
\* array, any other non-string or missing, or all three return ParseError.
C25_RowParsersAgree ==
    parser \in RowParsers =>
        /\ parsed \in {parse_periodic_row(json_in),
                       incomestatement_parse_periodic_row(json_in),
                       parse_periodic_row_value(json_in)}
        /\ \/ /\ IsOk(parse_periodic_row(json_in))
              /\ incomestatement_parse_periodic_row(json_in) = parse_periodic_row(json_in)
              /\ parse_periodic_row_value(json_in) = parse_periodic_row(json_in)
              /\ parsed.v.account = AccountOf(json_in)
           \/ /\ IsParseError(parse_periodic_row(json_in))
              /\ IsParseError(incomestatement_parse_periodic_row(json_in))
              /\ IsParseError(parse_periodic_row_value(json_in))

\* the cashflow parser has read a row whose name is a non-empty array, with
\* amounts and a total, as the other two read it
C25_Witness ==
    /\ parser = "parse_periodic_row_value"
    /\ has(json_in, "prrName")
    /\ json_in.o.prrName = JArr(<<JStr(Str_acct)>>)
    /\ has(json_in, "prrTotal")
    /\ IsOk(parsed)
    /\ parsed.v.account = <<>>
    /\ Len(parsed.v.amounts) = 1
    /\ parsed.v.total.some
    /\ parsed = incomestatement_parse_periodic_row(json_in)
    /\ parsed = parse_periodic_row(json_in)

\* a value that is no object is rejected by all three
C25_Rejected ==
    /\ parser = "incomestatement::parse_periodic_row"
    /\ json_in = JArr(<<>>)
    /\ IsParseError(parsed)
    /\ IsParseError(parse_periodic_row_value(json_in))

\* the number p is the integer the JSON PosInt v is
IsNatOf(p, v) == v.top = 0 /\ v.hi = 0 /\ p = v.lo

\* a style object whose asprecision is a non-negative integer
HasNaturalPrecision(st) ==
    /\ has(st, "asprecision")
    /\ st.o.asprecision.t = "num"
    /\ st.o.asprecision.k = "PosInt"

\* the style parsed for the one amount of the one posting of StyledDoc
ParsedStyle == parsed.v[1].postings[1].amounts[1].style

\* every other field the style object gives is in the parsed style
OtherFieldsKept(st, style) ==
    /\ has(st, "ascommodityside") => style.commodity_side = st.o.ascommodityside.s
    /\ has(st, "ascommodityspaced") => style.commodity_spaced = st.o.ascommodityspaced.b
    /\ has(st, "asdecimalmark") => style.decimal_mark = Some(st.o.asdecimalmark.s)
    /\ has(st, "asdigitgroups") => style.digit_groups = Some(st.o.asdigitgroups.s)
    /\ has(st, "asrounding") => style.rounding = st.o.asrounding.s

\* C26, as stated: the style of a posting amount is kept as data: when its
\* astyle gives a non-negative integer asprecision, the parsed precision is
\* that integer, neither wrapped nor truncated, and the other fields of the
\* parsed style are the values given.
C26_StylePreserved ==
    \A st \in Style_vals :
        (/\ parser = "parse_print_output"
         /\ HasNaturalPrecision(st)
         /\ json_in = StyledDoc(st)) =>
            /\ IsOk(parsed)
            /\ IsNatOf(ParsedStyle.precision, st.o.asprecision)
            /\ OtherFieldsKept(st, ParsedStyle)

\* a print report whose amount has the precision 65538 has been parsed, and
\* the style holds the precision 2
C26_Witness ==
    /\ parser = "parse_print_output"
    /\ json_in = StyledDoc(JObj([asprecision |-> JNat(65538)]))
    /\ IsOk(parsed)
    /\ ParsedStyle.precision = 2

\* what does hold: a precision below 2^16 is kept, and so are the other
\* fields given
C26_SmallPrecisionKept ==
    \A st \in Style_vals :
        (/\ parser = "parse_print_output"
         /\ HasNaturalPrecision(st)
         /\ st.o.asprecision.lo < 65536
         /\ json_in = StyledDoc(st)) =>
            /\ IsOk(parsed)
            /\ IsNatOf(ParsedStyle.precision, st.o.asprecision)
            /\ OtherFieldsKept(st, ParsedStyle)

\* a style with a side, a spacing, a decimal mark and the precision 3 has
\* been parsed
C26_Kept ==
    /\ parser = "parse_print_output"
    /\ \E st \in Style_vals :
           /\ has(st, "asdecimalmark")
           /\ json_in = StyledDoc(st)
    /\ IsOk(parsed)
    /\ ParsedStyle.precision = 3
    /\ ParsedStyle.commodity_side = <<"R">>

(***************************************************************************)
(* More properties of the Command and of the call (Spec).                  *)
(***************************************************************************)
\* the flags of an axis among the generated arguments
FlagsOn(args, axis) == {args[i].w : i \in Generated(args, axis)}

\* the flag of the first field of fs that is true, if any is
FirstTrue(options, fs, flags) ==
    {flags[i] : i \in {i \in DOMAIN fs : options[fs[i]] /\ \A j \in 1..(i - 1) : ~options[fs[j]]}}

\* C27: get_cashflow emits, whatever booleans are set, the calculation flag
\* of the first true of valuechange, gain, budget, the accumulation flag of
\* the first true of cumulative, historical, and the period flag of the
\* first true of daily, weekly, monthly, quarterly, yearly (none when none
\* is true): at most one flag of each of these axes.
C27_CashflowPrecedence ==
    (pc = "built" /\ call.kind = "cashflow") =>
        /\ FlagsOn(cmd.args, CalculationFlags)
               = FirstTrue(call.options, <<"valuechange", "gain", "budget">>,
                           <<"--valuechange", "--gain", "--budget">>)
        /\ FlagsOn(cmd.args, AccumulationFlags)
               = FirstTrue(call.options, <<"cumulative", "historical">>,
                           <<"--cumulative", "--historical">>)
        /\ FlagsOn(cmd.args, IntervalFlags)
               = FirstTrue(call.options,
                           <<"daily", "weekly", "monthly", "quarterly", "yearly">>,
                           <<"--daily", "--weekly", "--monthly", "--quarterly", "--yearly">>)
        /\ \A axis \in {CalculationFlags, AccumulationFlags, IntervalFlags} :
               Cardinality(Generated(cmd.args, axis)) <= 1

\* a cashflow call with gain and budget set carries --gain alone
C27_Witness ==
    /\ pc = "built"
    /\ call.kind = "cashflow"
    /\ call.options.gain /\ call.options.budget /\ ~call.options.valuechange
    /\ \E i \in DOMAIN cmd.args : cmd.args[i] = W("--gain")
    /\ \A i \in DOMAIN cmd.args : cmd.args[i] # W("--budget")

\* a cashflow call with weekly and yearly set carries --weekly alone
C27_Period ==
    /\ pc = "built"
    /\ call.kind = "cashflow"
    /\ call.options.weekly /\ call.options.yearly
    /\ FlagsOn(cmd.args, IntervalFlags) = {"--weekly"}

\* C28: get_balance and get_incomestatement emit exactly one list-mode
\* flag, --tree when options.tree is true (whatever options.flat is) and
\* --flat otherwise: the same options with the flat field inverted compile
\* to the same argument list.
C28_ListMode ==
    (pc = "built" /\ call.kind \in {"balance", "incomestatement"}) =>
        /\ Cardinality(Generated(cmd.args, LayoutFlags)) = 1
        /\ FlagsOn(cmd.args, LayoutFlags)
               = IF call.options.tree THEN {"--tree"} ELSE {"--flat"}
        /\ cmd.args = command_args(call.kind, call.journal_file,
                                   [call.options EXCEPT !.flat = ~call.options.flat])

\* a balance call with both tree and flat set carries --tree and no --flat
C28_Witness ==
    /\ pc = "built"
    /\ call.kind = "balance"
    /\ call.options.tree /\ call.options.flat
    /\ call.options.queries = <<>>
    /\ \E i \in DOMAIN cmd.args : cmd.args[i] = W("--tree")
    /\ \A i \in DOMAIN cmd.args : cmd.args[i] # W("--flat")

\* an income statement call with neither set carries --flat
C28_NeitherSet ==
    /\ pc = "built"
    /\ call.kind = "incomestatement"
    /\ ~call.options.tree /\ ~call.options.flat
    /\ \E i \in DOMAIN cmd.args : cmd.args[i] = W("--flat")

\* the outcome the stages classify, each stage only when the ones before
\* it passed: launch, exit status, UTF-8 decoding of stdout, JSON decoding
\* (none for accounts, which reads lines), schema parsing
IsClassifiedInOrder ==
    IF output.launch = "NotFound" THEN result = HLedgerNotFound
    ELSE IF output.launch # "Ok" THEN result = Io
    ELSE IF output.status.code # Some(0)
    THEN result.tag = "Err" /\ result.e = "CommandFailed"
    ELSE IF \E i \in DOMAIN output.stdout : ~output.stdout[i].utf8
    THEN result = InvalidUtf8
    ELSE IF call.kind = "accounts"
    THEN IsOk(result)
    ELSE IF ~(Len(output.stdout) = 1 /\ "doc" \in DOMAIN output.stdout[1])
    THEN result = Json
    ELSE result = parse_report(call.kind, output.stdout[1].doc)

\* C29, as stated: every report function classifies the launch first (not
\* found: HLedgerNotFound, any other failure: Io), then the exit status
\* (CommandFailed whatever stdout holds), then the UTF-8 decoding of stdout,
\* then its JSON decoding, then the schema; Json and ParseError are returned
\* only after a successful exit.
C29_ClassificationOrder ==
    pc = "returned" =>
        /\ IsClassifiedInOrder
        /\ (result.tag = "Err" /\ result.e \in {"Json", "ParseError"}) =>
               output.launch = "Ok" /\ output.status.code = Some(0)

\* get_cashflow has returned Json for a stdout that is not valid UTF-8
C29_Witness ==
    /\ Exited
    /\ call.kind = "cashflow"
    /\ output.status.code = Some(0)
    /\ output.stdout = <<InvalidByte>>
    /\ result = Json

\* what does hold: the four other report functions classify in that order
C29_OrderOutsideCashflow ==
    (pc = "returned" /\ call.kind # "cashflow") => IsClassifiedInOrder

\* what does hold for all five: launch and exit status come first, and Json
\* and ParseError are returned only after a successful exit
C29_ExitBeforeOutput ==
    pc = "returned" =>
        /\ output.launch = "NotFound" => result = HLedgerNotFound
        /\ output.launch = "Error" => result = Io
        /\ (output.launch = "Ok" /\ output.status.code # Some(0)) =>
               result.tag = "Err" /\ result.e = "CommandFailed"
        /\ (result.tag = "Err" /\ result.e \in {"Json", "ParseError", "InvalidUtf8"}) =>
               output.launch = "Ok" /\ output.status.code = Some(0)

\* a print run that exited with code 1 and a well-formed report on stdout
C29_FailedExitWithReport ==
    /\ Exited
    /\ call.kind = "print"
    /\ output.status.code = Some(1)
    /\ \E d \in PrintDocs : output.stdout = <<Doc(d, TRUE)>> /\ IsOk(parse_print_output(d))
    /\ result.e = "CommandFailed"

\* the document is one transaction with one posting with one amount object
HasOneAmount(doc) ==
    /\ is_array(doc) /\ Len(doc.a) = 1
    /\ has(doc.a[1], "tpostings")
    /\ is_array(doc.a[1].o.tpostings) /\ Len(doc.a[1].o.tpostings.a) = 1
    /\ has(doc.a[1].o.tpostings.a[1], "pamount")
    /\ is_array(doc.a[1].o.tpostings.a[1].o.pamount)
    /\ Len(doc.a[1].o.tpostings.a[1].o.pamount.a) = 1
    /\ is_object(doc.a[1].o.tpostings.a[1].o.pamount.a[1])

OneAmount(doc) == doc.a[1].o.tpostings.a[1].o.pamount.a[1]

\* C30, as stated: the style given to a posting amount that has no astyle
\* is the style parsed from an astyle object with no fields: the same side,
\* spacing, decimal mark, digit groups, precision and rounding.
C30_DefaultStyleConsistent ==
    (parser = "parse_print_output" /\ HasOneAmount(json_in) /\ IsOk(parsed)) =>
        /\ ~has(OneAmount(json_in), "astyle") =>
               ParsedStyle = parse_amount_style(EmptyObj).v
        /\ get(OneAmount(json_in), "astyle") = Some(EmptyObj) =>
               ParsedStyle = AmountStyle_default

\* an amount without astyle has been given the decimal mark ".", and the
\* empty style object parses to a style with no decimal mark
C30_Witness ==
    /\ parser = "parse_print_output"
    /\ HasOneAmount(json_in)
    /\ ~has(OneAmount(json_in), "astyle")
    /\ IsOk(parsed)
    /\ ParsedStyle.decimal_mark = Some(<<".">>)
    /\ parse_amount_style(EmptyObj).v.decimal_mark = None

\* what does hold: the two styles agree on every field but the decimal mark
C30_ConsistentButDecimalMark ==
    (parser = "parse_print_output" /\ HasOneAmount(json_in) /\ IsOk(parsed)
         /\ ~has(OneAmount(json_in), "astyle")) =>
        [ParsedStyle EXCEPT !.decimal_mark = None] = parse_amount_style(EmptyObj).v

\* a document whose amount has the empty style object has been parsed
C30_EmptyStyle ==
    /\ parser = "parse_print_output"
    /\ json_in = StyledDoc(EmptyObj)
    /\ IsOk(parsed)
    /\ ParsedStyle.decimal_mark = None
    /\ ParsedStyle.precision = 2
=============================================================================
